---- MODULE Spec2Model ----
(***************************************************************************)
(* A model of supervisord_dependent_startup: the service table and its     *)
(* canonical order (ServicesHandler), the per-process reached-state        *)
(* histories (Service), the process controller adapter (ProcessHandler)    *)
(* and the event-driven scheduler (DependentStartup), together with the    *)
(* process manager (supervisord) that emits the process-state events.      *)
(***************************************************************************)
EXTENDS Integers, Sequences, FiniteSets, TLC

VARIABLES
    services,      \* ServicesHandler._services: service name -> Service
    order,         \* the keys of ServicesHandler._services, in table order
    bad_commands,  \* supervisord: the programs whose command cannot be spawned
    procs_state,   \* Service.procs_state[procname]['states_reached'], by procname
    proc_info,     \* ProcessHandler.proc_info[procname]['statename'] (cached view)
    startup_done,  \* DependentStartup.startup_done
    start_first,   \* DependentStartup.start_first: {} (None) or {service name}
    pc,            \* where the listener is: "parse", "sort", "run", "listen";
                   \* "error", "crash", "crashed"; "main", "wait" in
                   \* ordered_startup_supervisord
    supervisor,    \* supervisord: the current state of every process
    events,        \* supervisord: the events buffered for the listener (FIFO)
    nread,         \* number of events returned by childutils.listener.wait
    nacked,        \* number of events acknowledged by childutils.listener.ok
    rpc_calls,     \* the start RPCs received by supervisord, in order
    parser,        \* the sections of the config files (load_config; main)
    error_action,  \* ServicesHandler.args.error_action
    programs,      \* ordered_startup_supervisord: startup_plan.programs
    initial_start  \* ordered_startup_supervisord: initial_start in main

vars == <<services, order, bad_commands, procs_state, proc_info, startup_done,
          start_first, pc, supervisor, events, nread, nacked, rpc_calls,
          parser, error_action, programs, initial_start>>

----------------------------------------------------------------------------
(* Bounds of the model *)

\* the number of events supervisord emits on its own (the STARTING events of
\* the processes a start call spawns are extra)
MaxEvents == 4

----------------------------------------------------------------------------
(* Names and program constants *)

\* Service.default_priority_sort
default_priority_sort == 999

\* ServiceOptions.valid_wait_on_states
valid_wait_on_states == {"STARTING", "RUNNING", "BACKOFF", "STOPPING", "EXITED", "FATAL"}

\* supervisor.states.RUNNING_STATES, as used by SupervisorProcessStates.is_running
RUNNING_STATES == {"RUNNING", "STARTING", "BACKOFF"}

\* the event listener's own process (tests: dependent_startup_service_name)
dependent_startup_service_name == "dependentstartup"

\* The names used for services and processes, in Python's string order
\* (sorted() compares the names; TLC cannot compare strings).
NameOrder == <<"consul", "consul2", "consul3", "ping", "sleep", "slurmd", "slurmd2",
               "slurmd_00", "slurmd_01", "unhandled">>

name_rank(n) == CHOOSE i \in 1..Len(NameOrder) : NameOrder[i] = n

Range(f) == {f[x] : x \in DOMAIN f}

SetMin(S) == CHOOSE x \in S : \A y \in S : x <= y

----------------------------------------------------------------------------
(* Service and ServiceOptions *)

\* ServiceOptions with the defaults of its properties: priority and numprocs
\* are {} when unset (None) and {n} when set.
Options(prio, autostart, dependent, inherit, waitfor, procnames, numprocs, group) ==
    [priority |-> prio, autostart |-> autostart, dependent_startup |-> dependent,
     inherit_priority |-> inherit, wait_for_services |-> waitfor,
     procnames |-> procnames, numprocs |-> numprocs, group |-> group]

\* no dependency
NoDeps == [d \in {} |-> {}]

\* a managed single-process program of the tests (add_test_service)
Managed(name, prio, waitfor) ==
    Options(prio, FALSE, TRUE, FALSE, waitfor, <<name>>, {}, name)

\* Service.procs_state keys of one service
procs(tbl, s) == Range(tbl[s].procnames)

\* every process name of the table
all_procs(tbl) == UNION {procs(tbl, s) : s \in DOMAIN tbl}

\* ProcessHandler.get_procs(service): process names in procs_state order
get_procs(tbl, s) == tbl[s].procnames

\* Service.has_process
has_process(tbl, s, procname) == procname \in procs(tbl, s)

\* mutant: any recorded state of the processes counts as a required one
has_reached_states_any(tbl, hist, s, states) ==
    \A procname \in procs(tbl, s) : hist[procname] # <<>>

\* mutant: every process has reached some state of the list, not all the same
has_reached_states_each(tbl, hist, s, states) ==
    \A procname \in procs(tbl, s) :
        \E state \in states : state \in Range(hist[procname])

\* Service.has_reached_states: OR over the states of AND over the processes
has_reached_states(tbl, hist, s, states) ==
    \E state \in states :
        \A procname \in procs(tbl, s) : state \in Range(hist[procname])

\* mutant: the history keeps only the last state of the process
process_state_update_last(hist, procname, state) ==
    [hist EXCEPT ![procname] = <<state>>]

\* Service.process_state_update: append to the history of one process
process_state_update(hist, procname, state) ==
    [hist EXCEPT ![procname] = Append(@, state)]

\* Service.priority: the explicit priority option, {} when unset
priority(tbl, s) == tbl[s].priority

\* Python truth value of self.priority (None and 0 are false)
priority_is_true(tbl, s) ==
    \E p \in priority(tbl, s) : p # 0

\* Service.priority_sort, evaluated with a bounded recursion depth
RECURSIVE priority_sort_rec(_, _, _)
priority_sort_rec(tbl, s, fuel) ==
    LET own == IF priority_is_true(tbl, s)
               THEN CHOOSE p \in priority(tbl, s) : TRUE
               ELSE default_priority_sort
    IN  IF tbl[s].inherit_priority /\ fuel > 0
        THEN SetMin({own} \cup
                    {priority_sort_rec(tbl, dep, fuel - 1) :
                        dep \in DOMAIN tbl[s].wait_for_services})
        ELSE own

\* the recursion of priority_sort does not end (RecursionError): an
\* inheriting service reaches itself through inheriting services
RECURSIVE priority_sort_overflows(_, _, _)
priority_sort_overflows(tbl, s, fuel) ==
    /\ tbl[s].inherit_priority
    /\ \/ fuel = 0
       \/ \E dep \in DOMAIN tbl[s].wait_for_services :
              priority_sort_overflows(tbl, dep, fuel - 1)

priority_sort(tbl, s) == priority_sort_rec(tbl, s, Cardinality(DOMAIN tbl))

\* Service.priority_effective: {} (None) when the sortable priority is the default
priority_effective(tbl, s) ==
    IF priority_sort(tbl, s) = default_priority_sort THEN {} ELSE {priority_sort(tbl, s)}

\* mutant: every service of the table counts as managed
dependent_startup_any(tbl, s) == s \in DOMAIN tbl

\* Service.dependent_startup
dependent_startup(tbl, s) == tbl[s].dependent_startup

----------------------------------------------------------------------------
(* ServicesHandler: the canonical order *)

\* toposort.toposort(data): self dependencies are ignored; each layer is the
\* set of the items left that depend on nothing left; what cannot be layered
\* is reported by CircularDependencyError.
RECURSIVE toposort_rec(_, _)
toposort_rec(data, layers) ==
    LET ordered == {item \in DOMAIN data : data[item] = {}}
    IN  IF ordered = {}
        THEN [layers |-> layers, circular |-> data]
        ELSE toposort_rec([item \in DOMAIN data \ ordered |-> data[item] \ ordered],
                          Append(layers, ordered))

toposort(data) ==
    toposort_rec([item \in DOMAIN data |-> data[item] \ {item}], <<>>)

\* the sort key of get_sorted_services_list: (priority_sort, name), as Python
\* compares tuples
sort_key_less(tbl, a, b) ==
    \/ priority_sort(tbl, a) < priority_sort(tbl, b)
    \/ /\ priority_sort(tbl, a) = priority_sort(tbl, b)
       /\ name_rank(a) < name_rank(b)

\* sorted(d, key=lambda service: (priority_sort, service))
sorted_layer(tbl, d) ==
    [i \in 1..Cardinality(d) |->
        CHOOSE a \in d : Cardinality({b \in d : sort_key_less(tbl, b, a)}) = i - 1]

RECURSIVE extend_layers(_, _, _)
extend_layers(tbl, layers, i) ==
    IF i > Len(layers) THEN <<>>
    ELSE sorted_layer(tbl, layers[i]) \o extend_layers(tbl, layers, i + 1)

\* mutant: one sort of all services by priority and name, without the layers
get_sorted_services_list_flat(tbl) ==
    [status |-> "ok", result |-> sorted_layer(tbl, DOMAIN tbl),
     circular |-> [item \in {} |-> {}]]

\* ServicesHandler.get_sorted_services_list: the layers of toposort, each
\* sorted by priority and name; "error" is DependentStartupError, "crash" the
\* RecursionError of priority_sort on a service of a layer
get_sorted_services_list(tbl) ==
    LET deps_dict == [k \in DOMAIN tbl |-> DOMAIN tbl[k].wait_for_services]
        topo == toposort(deps_dict)
        layered == UNION Range(topo.layers)
    IN  IF \E s \in layered : priority_sort_overflows(tbl, s, Cardinality(DOMAIN tbl))
        THEN [status |-> "crash", result |-> <<>>, circular |-> topo.circular]
        ELSE IF DOMAIN topo.circular # {}
        THEN [status |-> "error", result |-> <<>>, circular |-> topo.circular]
        ELSE [status |-> "ok", result |-> extend_layers(tbl, topo.layers, 1),
              circular |-> topo.circular]

\* mutant: the loop returns True at the first satisfied dependency
service_wait_for_satisifed_first(tbl, hist, s) ==
    \/ DOMAIN tbl[s].wait_for_services = {}
    \/ \E dep_sname \in DOMAIN tbl[s].wait_for_services :
        \E required_state \in tbl[s].wait_for_services[dep_sname] :
            has_reached_states(tbl, hist, dep_sname, {required_state})

\* mutant: a dependency without required states does not keep a service waiting
service_wait_for_satisifed_vacuous(tbl, hist, s) ==
    \A dep_sname \in DOMAIN tbl[s].wait_for_services :
        \/ tbl[s].wait_for_services[dep_sname] = {}
        \/ \E required_state \in tbl[s].wait_for_services[dep_sname] :
               has_reached_states(tbl, hist, dep_sname, {required_state})

\* ServicesHandler.service_wait_for_satisifed
service_wait_for_satisifed(tbl, hist, s) ==
    \A dep_sname \in DOMAIN tbl[s].wait_for_services :
        \E required_state \in tbl[s].wait_for_services[dep_sname] :
            has_reached_states(tbl, hist, dep_sname, {required_state})

\* mutant: a service is done when each process has reached RUNNING or FATAL
is_service_done_mixed(tbl, hist, s) ==
    \A procname \in procs(tbl, s) :
        "RUNNING" \in Range(hist[procname]) \/ "FATAL" \in Range(hist[procname])

\* mutant: only FATAL makes a service done
is_service_done_fatal(tbl, hist, s) == has_reached_states(tbl, hist, s, {"FATAL"})

\* mutant: only RUNNING makes a service done
is_service_done_running(tbl, hist, s) == has_reached_states(tbl, hist, s, {"RUNNING"})

\* ServicesHandler.is_service_done
is_service_done(tbl, hist, s) == has_reached_states(tbl, hist, s, {"RUNNING", "FATAL"})

\* ServicesHandler.update_state_event: every service that has the process
\* records the state
update_state_event(tbl, hist, procname, state) ==
    IF \E s \in DOMAIN tbl : has_process(tbl, s, procname)
    THEN process_state_update(hist, procname, state)
    ELSE hist

----------------------------------------------------------------------------
(* ProcessHandler: the adapter of the process controller *)

\* SupervisorProcessStates.is_running
is_running(state) == state \in RUNNING_STATES

\* mutant: a process in FATAL does not keep the service from being started
is_startable_running(tbl, info, s) ==
    \A procname \in procs(tbl, s) : ~is_running(info[procname])

\* ProcessHandler.is_startable, on the cached view
is_startable(tbl, info, s) ==
    \A procname \in procs(tbl, s) :
        ~(is_running(info[procname]) \/ info[procname] \in {"FATAL"})

\* ProcessHandler.update_proc_info(service): getProcessInfo of its processes
update_proc_info_service(tbl, info, sup, s) ==
    [p \in DOMAIN info \cup procs(tbl, s) |->
        IF p \in procs(tbl, s) THEN sup[p] ELSE info[p]]

\* ProcessHandler.update_proc_info(): getAllProcessInfo
update_proc_info(info, sup) ==
    [p \in DOMAIN info \cup DOMAIN sup |->
        IF p \in DOMAIN sup THEN sup[p] ELSE info[p]]

\* mutant: a service of several processes is named by its first process
group_and_procname_first(tbl, s) ==
    LET procname == tbl[s].procnames[1]
    IN  IF Len(tbl[s].procnames) > 1 THEN <<tbl[s].group, procname>>
        ELSE IF s # tbl[s].group THEN <<tbl[s].group, procname>>
        ELSE IF procname # s THEN <<tbl[s].group, procname>>
        ELSE <<s>>

\* Service.group_and_procname: the name passed to the start RPC, as the pair
\* <<group, procname>> for "group:procname" and <<name>> for a bare name
group_and_procname(tbl, s) ==
    IF Len(tbl[s].procnames) > 1
    THEN IF s = tbl[s].group THEN <<s>> ELSE <<tbl[s].group, s>>
    ELSE LET procname == tbl[s].procnames[1]
         IN  IF s # tbl[s].group THEN <<tbl[s].group, procname>>
             ELSE IF procname # s THEN <<tbl[s].group, procname>>
             ELSE <<s>>

\* mutant: a group start also for a service of a [group:x] section
start_rpc_method_group(tbl, s) ==
    IF (\E n \in tbl[s].numprocs : n > 1) \/ tbl[s].group # s
    THEN "startProcessGroup" ELSE "startProcess"

\* the RPC start_service chooses: startProcessGroup when numprocs > 1
start_rpc_method(tbl, s) ==
    IF \E n \in tbl[s].numprocs : n > 1 THEN "startProcessGroup" ELSE "startProcess"

----------------------------------------------------------------------------
(* supervisord: the process manager behind the RPC interface *)

\* the processes of a process group
group_procs(tbl, g) == UNION {procs(tbl, s) : s \in {x \in DOMAIN tbl : tbl[x].group = g}}

\* the processes a start RPC names, {} when supervisord knows no such group
\* or process (Faults.BAD_NAME)
rpc_target(tbl, method, name) ==
    IF method = "startProcessGroup"
    THEN IF Len(name) = 1 THEN group_procs(tbl, name[1]) ELSE {}
    ELSE LET g == name[1]
             p == IF Len(name) = 2 THEN name[2] ELSE name[1]
         IN  {p} \cap group_procs(tbl, g)

\* startProcess / startProcessGroup as supervisord answers them: a fault
\* (BAD_NAME, NO_FILE, ALREADY_STARTED) changes nothing; otherwise every
\* process named that is not running is spawned and its STARTING event is
\* buffered for the listener. w is the state of the run, k the number of the
\* event being handled; a call record notes whether the call is the deferred
\* first start of handle_event (start_first is still set then).
supervisor_start(tbl, bad, w, s, k) ==
    LET method == start_rpc_method(tbl, s)
        name == group_and_procname(tbl, s)
        target == rpc_target(tbl, method, name)
        fault == \/ target = {}
                 \/ s \in bad
                 \/ /\ method = "startProcess"
                    /\ \E p \in target : w.sup[p] \in RUNNING_STATES
        spawned == SelectSeq(get_procs(tbl, s),
                             LAMBDA p : p \in target /\ w.sup[p] \notin RUNNING_STATES)
        call == [service |-> s, method |-> method, name |-> name,
                 ok |-> ~fault, event |-> k, first |-> (w.first # {})]
    IN  IF fault
        THEN [w EXCEPT !.calls = Append(@, call), !.fault = TRUE]
        ELSE [w EXCEPT !.calls = Append(@, call),
                       !.sup = [p \in DOMAIN @ |->
                                   IF p \in Range(spawned) THEN "STARTING" ELSE @[p]],
                       !.evq = @ \o [i \in 1..Len(spawned) |->
                                       [processname |-> spawned[i], state |-> "STARTING"]]]

----------------------------------------------------------------------------
(* ProcessHandler.start_service and DependentStartup *)

\* ProcessHandler.update_proc_info on the state of the run
refresh_service(tbl, w, s) ==
    [w EXCEPT !.info = update_proc_info_service(tbl, w.info, w.sup, s)]

refresh_all(w) ==
    [w EXCEPT !.info = update_proc_info(w.info, w.sup)]

\* mutant: the RPC is issued whatever the state of the processes
start_service_unchecked(tbl, bad, w, s, k) ==
    [supervisor_start(tbl, bad, refresh_service(tbl, w, s), s, k) EXCEPT !.fault = FALSE]

\* mutant: the Fault of the RPC is not caught
start_service_uncaught(tbl, bad, w, s, k) ==
    LET w1 == refresh_service(tbl, w, s)
    IN  IF ~is_startable(tbl, w1.info, s)
        THEN w1
        ELSE supervisor_start(tbl, bad, w1, s, k)

\* ProcessHandler.start_service: refresh the view of the service, refuse when
\* it is not startable, else issue the RPC; a Fault is caught and logged
start_service(tbl, bad, w, s, k) ==
    LET w1 == refresh_service(tbl, w, s)
    IN  IF ~is_startable(tbl, w1.info, s)
        THEN w1
        ELSE [supervisor_start(tbl, bad, w1, s, k) EXCEPT !.fault = FALSE]

\* ServicesHandler.log_services_list: get_service_state_str refreshes the view
\* of every service
RECURSIVE log_services_list(_, _, _, _)
log_services_list(tbl, ord, w, i) ==
    IF i > Len(ord) THEN w
    ELSE log_services_list(tbl, ord, refresh_service(tbl, w, ord[i]), i + 1)

\* the key of sorted(to_start_priorites.keys()): None counts as infinity
priority_key_less(a, b) ==
    /\ a # {}
    /\ \/ b = {}
       \/ (CHOOSE x \in a : TRUE) < (CHOOSE y \in b : TRUE)

\* start_services 795-812: the eligible services grouped by effective
\* priority, the groups in ascending priority, each group in table order
RECURSIVE concat_groups(_, _, _, _)
concat_groups(tbl, eligible, keys, i) ==
    IF i > Len(keys) THEN <<>>
    ELSE SelectSeq(eligible, LAMBDA s : priority_effective(tbl, s) = keys[i])
         \o concat_groups(tbl, eligible, keys, i + 1)

priority_start(tbl, eligible) ==
    LET keyset == {priority_effective(tbl, eligible[i]) : i \in DOMAIN eligible}
        keys == [i \in 1..Cardinality(keyset) |->
                    CHOOSE a \in keyset :
                        Cardinality({b \in keyset : priority_key_less(b, a)}) = i - 1]
    IN  concat_groups(tbl, eligible, keys, 1)

\* mutant: only the first service of the pass is started
start_each_first(tbl, bad, w, seq, i, k) ==
    IF seq = <<>> THEN w ELSE start_service(tbl, bad, w, seq[1], k)

\* the loop over the services to start; an exception ends it
RECURSIVE start_each(_, _, _, _, _, _)
start_each(tbl, bad, w, seq, i, k) ==
    IF i > Len(seq) \/ w.fault THEN w
    ELSE start_each(tbl, bad, start_service(tbl, bad, w, seq[i], k), seq, i + 1, k)

\* the services start_services takes as pending: managed and not done
service_to_be_started(tbl, ord, hist) ==
    SelectSeq(ord, LAMBDA s : dependent_startup(tbl, s) /\ ~is_service_done(tbl, hist, s))

\* mutant: a dependency also counts as satisfied when supervisord reports its
\* processes in a required state
to_start_current(tbl, pending, hist, info) ==
    SelectSeq(pending, LAMBDA s :
        /\ is_startable(tbl, info, s)
        /\ \A dep \in DOMAIN tbl[s].wait_for_services :
               \/ has_reached_states(tbl, hist, dep, tbl[s].wait_for_services[dep])
               \/ \A p \in procs(tbl, dep) : info[p] \in tbl[s].wait_for_services[dep])

\* the pending services that are startable and whose dependencies are satisfied
to_start(tbl, pending, hist, info) ==
    SelectSeq(pending, LAMBDA s : /\ is_startable(tbl, info, s)
                                  /\ service_wait_for_satisifed(tbl, hist, s))

\* DependentStartup.start_services
start_services(tbl, ord, bad, w, k) ==
    LET w1 == log_services_list(tbl, ord, w, 1)
        pending == service_to_be_started(tbl, ord, w1.hist)
    IN  IF pending = <<>>
        THEN [w1 EXCEPT !.done = TRUE]
        ELSE start_each(tbl, bad, w1,
                        priority_start(tbl, to_start(tbl, pending, w1.hist, w1.info)), 1, k)

\* mutant: the deferred first start leaves start_first set
start_pending_first_kept(tbl, bad, w, k) ==
    IF w.first = {} THEN w
    ELSE LET first == CHOOSE s \in w.first : TRUE
         IN  refresh_service(tbl, start_service(tbl, bad, w, first, k), first)

\* handle_event 759-764: the deferred first start
start_pending_first(tbl, bad, w, k) ==
    IF w.first = {} THEN w
    ELSE LET first == CHOOSE s \in w.first : TRUE
             w1 == start_service(tbl, bad, w, first, k)
         IN  IF w1.fault THEN w1
             ELSE [refresh_service(tbl, w1, first) EXCEPT !.first = {}]

\* mutant: the state of the event is recorded after the services are started
handle_process_state_late(tbl, ord, bad, w, ev, k) ==
    LET w1 == refresh_all(w)
        w2 == start_pending_first(tbl, bad, w1, k)
        w3 == IF w2.fault THEN w2 ELSE start_services(tbl, ord, bad, w2, k)
    IN  [w3 EXCEPT !.hist = update_state_event(tbl, @, ev.processname, ev.state)]

\* handle_event 748-766: a PROCESS_STATE event while the startup is not done
handle_process_state(tbl, ord, bad, w, ev, k) ==
    LET w1 == refresh_all([w EXCEPT !.hist = update_state_event(
                              tbl, @, ev.processname, ev.state)])
        w2 == start_pending_first(tbl, bad, w1, k)
    IN  IF w2.fault THEN w2 ELSE start_services(tbl, ord, bad, w2, k)

\* mutant: an event of a process that no service owns is skipped
handle_event_owned(tbl, ord, bad, w, ev, k) ==
    IF w.done \/ ev.processname \notin all_procs(tbl) THEN w
    ELSE handle_process_state(tbl, ord, bad, w, ev, k)

\* DependentStartup.handle_event
handle_event(tbl, ord, bad, w, ev, k) ==
    IF w.done THEN w ELSE handle_process_state(tbl, ord, bad, w, ev, k)

\* mutant: run() does not ask whether the service is startable
find_start_first_unchecked(tbl, ord, hist, info) ==
    LET candidates == SelectSeq(ord, LAMBDA s :
                          /\ ~(tbl[s].autostart \/ ~dependent_startup(tbl, s))
                          /\ service_wait_for_satisifed(tbl, hist, s))
    IN  IF candidates = <<>> THEN {} ELSE {candidates[1]}

\* DependentStartup.run 836-847: the first service in table order that is
\* managed, not autostart, startable and has its dependencies satisfied
find_start_first(tbl, ord, hist, info) ==
    LET candidates == SelectSeq(ord, LAMBDA s :
                          /\ ~(tbl[s].autostart \/ ~dependent_startup(tbl, s))
                          /\ is_startable(tbl, info, s)
                          /\ service_wait_for_satisifed(tbl, hist, s))
    IN  IF candidates = <<>> THEN {} ELSE {candidates[1]}

----------------------------------------------------------------------------
(* The configurations of the runs: the programs of the test suite *)

Running(dep) == dep :> {"RUNNING"}

\* test_run_mock, test_run_main
ConsulSlurmd ==
    [programs |-> "consul" :> Managed("consul", {}, NoDeps)
               @@ "slurmd" :> Managed("slurmd", {10}, Running("consul"))
               @@ "slurmd2" :> Managed("slurmd2", {}, Running("consul") @@ Running("slurmd")),
     bad |-> {}, running |-> {}]

\* test_run_with_two_services_started_simultaneously_without_priorities
TwoSimultaneous ==
    [programs |-> "consul" :> Managed("consul", {}, NoDeps)
               @@ "consul2" :> Managed("consul2", {}, Running("consul"))
               @@ "slurmd" :> Managed("slurmd", {}, Running("consul")),
     bad |-> {}, running |-> {}]

\* a pending service of an earlier layer next to a service with a priority
PriorityAcrossLayers ==
    [programs |-> "consul" :> Managed("consul", {}, NoDeps)
               @@ "consul2" :> Managed("consul2", {}, NoDeps)
               @@ "slurmd" :> Managed("slurmd", {10}, "consul" :> {"STARTING"}),
     bad |-> {"consul2"}, running |-> {}]

\* priorities 0 and 10 in one layer
PriorityZero ==
    [programs |-> "consul" :> Managed("consul", {}, NoDeps)
               @@ "consul2" :> Managed("consul2", {0}, Running("consul"))
               @@ "slurmd" :> Managed("slurmd", {10}, Running("consul")),
     bad |-> {}, running |-> {}]

\* test_start_service_with_no_file_failure_20, with a second service waiting
\* for consul
NoFile ==
    [programs |-> "consul" :> Managed("consul", {}, NoDeps)
               @@ "slurmd" :> Managed("slurmd", {}, Running("consul"))
               @@ "slurmd2" :> Managed("slurmd2", {}, Running("consul")),
     bad |-> {"slurmd"}, running |-> {}]

\* test_not_starting_service_not_satisfying_deps
Unhandled ==
    [programs |-> "consul" :> Managed("consul", {}, NoDeps)
               @@ "unhandled" :> Options({}, TRUE, FALSE, FALSE, NoDeps,
                                        <<"unhandled">>, {}, "unhandled")
               @@ "slurmd" :> Managed("slurmd", {}, Running("consul") @@ Running("unhandled")),
     bad |-> {}, running |-> {}]

\* test_start_service_with_numproc_two_processes
NumprocsTwo ==
    [programs |-> "consul" :> Managed("consul", {}, NoDeps)
               @@ "slurmd" :> Options({}, FALSE, TRUE, FALSE, Running("consul"),
                                     <<"slurmd_00", "slurmd_01">>, {2}, "slurmd"),
     bad |-> {}, running |-> {}]

\* no service can be started first: the only managed service waits
NoCandidate ==
    [programs |-> "unhandled" :> Options({}, TRUE, FALSE, FALSE, NoDeps,
                                        <<"unhandled">>, {}, "unhandled")
               @@ "slurmd" :> Managed("slurmd", {}, Running("unhandled")),
     bad |-> {}, running |-> {}]

\* test_run_ping_example: a dependency on EXITED
PingExited ==
    [programs |-> "ping" :> Managed("ping", {}, NoDeps)
               @@ "sleep" :> Managed("sleep", {}, "ping" :> {"EXITED"}),
     bad |-> {}, running |-> {}]

\* the first service to start has no valid executable
NoFileFirst ==
    [programs |-> "consul" :> Managed("consul", {}, NoDeps)
               @@ "consul2" :> Managed("consul2", {}, NoDeps),
     bad |-> {"consul"}, running |-> {}]

\* test_process_not_started_after_reaching_fatal_state: a single service
ConsulAlone ==
    [programs |-> "consul" :> Managed("consul", {}, NoDeps),
     bad |-> {}, running |-> {}]

\* dependent_startup_wait_for=consul:bogus: no valid state is left
EmptyStates ==
    [programs |-> "consul" :> Managed("consul", {}, NoDeps)
               @@ "slurmd" :> Managed("slurmd", {}, "consul" :> {}),
     bad |-> {}, running |-> {}]

\* test_start_services_in_same_process_group: slurmd and slurmd2 are the
\* programs of [group:foo]
SameGroup ==
    [programs |-> "consul" :> Managed("consul", {}, NoDeps)
               @@ "slurmd" :> Options({}, FALSE, TRUE, FALSE, Running("consul"),
                                     <<"slurmd">>, {}, "foo")
               @@ "slurmd2" :> Options({}, FALSE, TRUE, FALSE, Running("consul"),
                                      <<"slurmd2">>, {}, "foo"),
     bad |-> {}, running |-> {}]

\* a program of two processes without dependencies
NumprocsAlone ==
    [programs |-> "slurmd" :> Options({}, FALSE, TRUE, FALSE, NoDeps,
                                     <<"slurmd_00", "slurmd_01">>, {2}, "slurmd"),
     bad |-> {}, running |-> {}]

\* consul is RUNNING before the listener starts (the listener was restarted,
\* or consul was started by hand); slurmd waits for it, and consul2, whose
\* command cannot be spawned, is the service to start first
AlreadyRunning ==
    [programs |-> "consul" :> Managed("consul", {}, NoDeps)
               @@ "consul2" :> Managed("consul2", {}, NoDeps)
               @@ "slurmd" :> Managed("slurmd", {}, Running("consul")),
     bad |-> {"consul2"}, running |-> {"consul"}]

Configs == {ConsulSlurmd, TwoSimultaneous, PriorityAcrossLayers, PriorityZero, NoFile,
            Unhandled, NumprocsTwo, NoCandidate, PingExited, NoFileFirst, ConsulAlone,
            EmptyStates, SameGroup, AlreadyRunning, NumprocsAlone}

----------------------------------------------------------------------------
(* The state machine *)

\* the state of a run, as the handlers thread it through their calls
World(evq) ==
    [hist |-> procs_state, info |-> proc_info, sup |-> supervisor, evq |-> evq,
     calls |-> rpc_calls, done |-> startup_done, first |-> start_first, fault |-> FALSE]

\* DependentStartup.__init__ with load_config done, supervisord holding the
\* listener in STARTING and the programs STOPPED (or RUNNING already)
Init ==
    \E c \in Configs :
        /\ services = c.programs
        /\ order = get_sorted_services_list(c.programs).result
        /\ bad_commands = c.bad
        /\ procs_state = [p \in all_procs(c.programs) |-> <<>>]
        /\ proc_info = [p \in {} |-> "UNKNOWN"]
        /\ startup_done = FALSE
        /\ start_first = {}
        /\ pc = "run"
        /\ supervisor = [p \in all_procs(c.programs) \cup {dependent_startup_service_name} |->
                            IF p = dependent_startup_service_name THEN "STARTING"
                            ELSE IF p \in c.running THEN "RUNNING" ELSE "STOPPED"]
        /\ events = <<>>
        /\ nread = 0
        /\ nacked = 0
        /\ rpc_calls = <<>>
        /\ parser = <<>>
        /\ error_action = "skip"
        /\ programs = <<>>
        /\ initial_start = "STARTED"

\* mutant: run() starts the first service itself instead of deferring it
Run_starting ==
    /\ pc = "run"
    /\ LET w == refresh_all(World(events))
           first == find_start_first(services, order, w.hist, w.info)
           w1 == IF first = {} THEN w
                 ELSE start_service(services, bad_commands, w, CHOOSE s \in first : TRUE, 0)
       IN  /\ proc_info' = w1.info
           /\ supervisor' = w1.sup
           /\ events' = w1.evq
           /\ rpc_calls' = w1.calls
           /\ start_first' = first
           /\ startup_done' = (first = {})
    /\ pc' = "listen"
    /\ UNCHANGED <<programs, initial_start, parser, error_action, services, order, bad_commands, procs_state, nread, nacked>>

\* mutant: run() leaves startup_done alone when it finds no service to start
Run_listening ==
    /\ pc = "run"
    /\ LET w == refresh_all(World(events))
           first == find_start_first(services, order, w.hist, w.info)
       IN  /\ proc_info' = w.info
           /\ start_first' = first
    /\ pc' = "listen"
    /\ UNCHANGED <<programs, initial_start, parser, error_action, services, order, bad_commands, procs_state, supervisor, events,
                   nread, nacked, rpc_calls, startup_done>>

\* DependentStartup.run
Run ==
    /\ pc = "run"
    /\ LET w == refresh_all(World(events))
           first == find_start_first(services, order, w.hist, w.info)
       IN  /\ proc_info' = w.info
           /\ start_first' = first
           /\ startup_done' = (first = {})
    /\ pc' = "listen"
    /\ UNCHANGED <<programs, initial_start, parser, error_action, services, order, bad_commands, procs_state, supervisor, events,
                   nread, nacked, rpc_calls>>

\* mutant: neither the loop nor the handler looks at startup_done
Listen_unguarded ==
    /\ pc = "listen"
    /\ events # <<>>
    /\ LET w == handle_process_state(services, order, bad_commands, World(Tail(events)),
                                     Head(events), nread + 1)
       IN  /\ procs_state' = w.hist
           /\ proc_info' = w.info
           /\ supervisor' = w.sup
           /\ events' = w.evq
           /\ rpc_calls' = w.calls
           /\ startup_done' = w.done
           /\ start_first' = w.first
           /\ nacked' = IF w.fault THEN nacked ELSE nacked + 1
           /\ pc' = IF w.fault THEN "crashed" ELSE "listen"
    /\ nread' = nread + 1
    /\ UNCHANGED <<programs, initial_start, parser, error_action, services, order, bad_commands>>

\* one turn of DependentStartup._listen: wait, handle_event, ok
Listen ==
    /\ pc = "listen"
    /\ ~startup_done
    /\ events # <<>>
    /\ LET w == handle_event(services, order, bad_commands, World(Tail(events)),
                             Head(events), nread + 1)
       IN  /\ procs_state' = w.hist
           /\ proc_info' = w.info
           /\ supervisor' = w.sup
           /\ events' = w.evq
           /\ rpc_calls' = w.calls
           /\ startup_done' = w.done
           /\ start_first' = w.first
           /\ nacked' = IF w.fault THEN nacked ELSE nacked + 1
           /\ pc' = IF w.fault THEN "crashed" ELSE "listen"
    /\ nread' = nread + 1
    /\ UNCHANGED <<programs, initial_start, parser, error_action, services, order, bad_commands>>

\* the states supervisord moves a process to on its own
next_states(tbl, p, state) ==
    IF p = dependent_startup_service_name
    THEN IF state = "STARTING" THEN {"RUNNING"} ELSE {}
    ELSE CASE state = "STARTING" -> {"RUNNING", "BACKOFF"}
           [] state = "BACKOFF" -> {"STARTING", "FATAL"}
           [] state = "RUNNING" -> {"EXITED"}
           [] state = "EXITED" -> {"STARTING"}
           [] state = "STOPPED" ->
                  IF \E s \in DOMAIN tbl : p \in procs(tbl, s) /\ tbl[s].autostart
                  THEN {"STARTING"} ELSE {}
           [] OTHER -> {}

\* the number of processes the accepted start calls have spawned
RECURSIVE spawned_by(_)
spawned_by(calls) ==
    IF calls = <<>> THEN 0
    ELSE (IF Head(calls).ok THEN Len(services[Head(calls).service].procnames) ELSE 0)
         + spawned_by(Tail(calls))

\* supervisord changes the state of a process and emits the event
ProcessStateChange ==
    /\ nread + Len(events) - spawned_by(rpc_calls) < MaxEvents
    /\ \E p \in DOMAIN supervisor :
        \E state \in next_states(services, p, supervisor[p]) :
            /\ supervisor' = [supervisor EXCEPT ![p] = state]
            /\ events' = Append(events, [processname |-> p, state |-> state])
    /\ UNCHANGED <<programs, initial_start, parser, error_action, services, order, bad_commands, procs_state, proc_info, startup_done,
                   start_first, pc, nread, nacked, rpc_calls>>

\* ServicesHandler.parse_config 567-570 on a table whose dependencies are all
\* known: the table is put in canonical order, or construction fails
SortServices ==
    /\ pc = "sort"
    /\ LET sorted == get_sorted_services_list(services)
       IN  /\ order' = sorted.result
           /\ pc' = IF sorted.status = "ok" THEN "run" ELSE sorted.status
    /\ UNCHANGED <<programs, initial_start, parser, error_action, services, bad_commands, procs_state, proc_info, startup_done,
                   start_first, supervisor, events, nread, nacked, rpc_calls>>

Next == Run \/ Listen \/ ProcessStateChange

Spec == Init /\ [][Next]_vars

----------------------------------------------------------------------------
(* The construction of the table alone, over every small dependency graph *)

\* the number of dependency edges of a table
MaxDeps == 3

SortNames == {"consul", "consul2", "slurmd"}

SortPriorities == {{}, {0}, {10}, {1000}}

\* the tables of managed single-process services over the names
SortTables ==
    {[n \in SortNames |->
         Options(prio[n], FALSE, TRUE, inherit[n], [dep \in deps[n] |-> {"RUNNING"}],
                 <<n>>, {}, n)] :
        prio \in [SortNames -> SortPriorities],
        inherit \in [SortNames -> BOOLEAN],
        deps \in {d \in [SortNames -> SUBSET SortNames] :
                     Cardinality({e \in SortNames \X SortNames : e[2] \in d[e[1]]})
                         <= MaxDeps}}

InitSort ==
    /\ services \in SortTables
    /\ order = <<>>
    /\ pc = "sort"
    /\ bad_commands = {}
    /\ procs_state = <<>>
    /\ proc_info = <<>>
    /\ startup_done = FALSE
    /\ start_first = {}
    /\ supervisor = <<>>
    /\ events = <<>>
    /\ nread = 0
    /\ nacked = 0
    /\ rpc_calls = <<>>
    /\ parser = <<>>
    /\ error_action = "skip"
    /\ programs = <<>>
    /\ initial_start = "STARTED"

NextSort == SortServices

SpecSort == InitSort /\ [][NextSort]_vars

----------------------------------------------------------------------------
(* The config file and its parsing *)

\* An option value is text: a sequence of symbols, each a word or one of the
\* separators " ", ":" and ",". str.split(sep):
RECURSIVE split(_, _)
split(text, sep) ==
    IF \E i \in DOMAIN text : text[i] = sep
    THEN LET i == SetMin({j \in DOMAIN text : text[j] = sep})
         IN  <<SubSeq(text, 1, i - 1)>> \o split(SubSeq(text, i + 1, Len(text)), sep)
    ELSE <<text>>

\* str.upper() of a word
upper_word(word) ==
    CASE word = "running" -> "RUNNING"
      [] word = "Fatal" -> "FATAL"
      [] word = "bogus" -> "BOGUS"
      [] OTHER -> word

\* str.upper() of a text
upper(text) == [i \in DOMAIN text |-> upper_word(text[i])]

\* the Python string of a text of at most one word
string(text) == IF text = <<>> THEN "" ELSE text[1]

\* mutant: the state names are compared as they are written
dep_states_cased(depsplit) ==
    IF Len(depsplit) = 2
    THEN LET states == split(depsplit[2], ",")
         IN  {string(states[i]) : i \in DOMAIN states} \cap valid_wait_on_states
    ELSE {"RUNNING"}

\* _parse_wait_for 233-242: the states a token asks for
dep_states(depsplit) ==
    IF Len(depsplit) = 2
    THEN LET states == split(depsplit[2], ",")
         IN  {string(upper(states[i])) : i \in DOMAIN states} \cap valid_wait_on_states
    ELSE {"RUNNING"}

\* the loop of _parse_wait_for over the tokens: a later token of the same
\* service replaces the earlier one
RECURSIVE parse_tokens(_, _, _)
parse_tokens(deps, i, wait_for_services) ==
    IF i > Len(deps) THEN wait_for_services
    ELSE LET depsplit == split(deps[i], ":")
             dep_service == string(depsplit[1])
         IN  parse_tokens(deps, i + 1,
                          (dep_service :> dep_states(depsplit)) @@ wait_for_services)

\* ServiceOptions._parse_wait_for
parse_wait_for(wait_for) == parse_tokens(split(wait_for, " "), 1, NoDeps)

\* the option values of a [program:x] section; {} is an absent option
Section(autostart, dependent, wait_for, numprocs, process_name) ==
    [autostart |-> autostart, dependent_startup |-> dependent, priority |-> {},
     inherit_priority |-> {}, wait_for |-> wait_for, numprocs |-> numprocs,
     process_name |-> process_name]

\* the process_name templates
program_name_template == "%(program_name)s"
numbered_template == "%(program_name)s_%(process_num)02d"

\* the expansion of a process_name template
expand(template, program_name, process_num) ==
    CASE template = program_name_template -> program_name
      [] template = numbered_template ->
             (CASE program_name = "slurmd" ->
                       <<"slurmd_00", "slurmd_01", "slurmd_02">>[process_num + 1]
                [] program_name = "consul" ->
                       <<"consul_00", "consul_01", "consul_02">>[process_num + 1])
      [] OTHER -> template

\* ServiceOptions.parse 217-228: the process names of the program
parse_procnames(section, program_name) ==
    IF section.process_name = {} THEN <<program_name>>
    ELSE LET template == CHOOSE t \in section.process_name : TRUE
             numprocs == IF section.numprocs = {} THEN 0
                         ELSE CHOOSE n \in section.numprocs : TRUE
         IN  IF numprocs # 0
             THEN [i \in 1..numprocs |-> expand(template, program_name, i - 1)]
             ELSE <<expand(template, program_name, 0)>>

\* an option with its default
option(value, default) == IF value = {} THEN default ELSE CHOOSE v \in value : TRUE

\* ServiceOptions.parse and the properties of ServiceOptions
parse(section, program_name, group_name) ==
    Options(section.priority,
            option(section.autostart, TRUE),
            option(section.dependent_startup, FALSE),
            option(section.inherit_priority, FALSE),
            IF section.wait_for = {} THEN NoDeps
            ELSE parse_wait_for(CHOOSE t \in section.wait_for : TRUE),
            parse_procnames(section, program_name),
            section.numprocs,
            group_name)

\* parse_config 555-561: the group of every program of a [group:x] section
procs_to_group(groups) ==
    [program \in UNION Range(groups) |-> CHOOSE g \in DOMAIN groups : program \in groups[g]]

\* mutant: under ignore the service stays managed
parse_section_ignoring(conf, action, name) ==
    LET to_group == procs_to_group(conf.groups)
        group == IF name \in DOMAIN to_group THEN to_group[name] ELSE name
        options == parse(conf.programs[name], name, group)
    IN  IF options.dependent_startup /\ options.autostart
        THEN IF action = "exit"
             THEN [status |-> "error", service |-> options]
             ELSE IF action = "skip"
             THEN [status |-> "ok", service |-> [options EXCEPT !.dependent_startup = FALSE]]
             ELSE [status |-> "ok", service |-> options]
        ELSE [status |-> "ok", service |-> options]

\* Service.parse_section: a managed service with autostart is an error under
\* exit and is no longer managed under skip and ignore
parse_section(conf, action, name) ==
    LET to_group == procs_to_group(conf.groups)
        group == IF name \in DOMAIN to_group THEN to_group[name] ELSE name
        options == parse(conf.programs[name], name, group)
    IN  IF options.dependent_startup /\ options.autostart
        THEN IF action = "exit"
             THEN [status |-> "error", service |-> options]
             ELSE IF action \in {"skip", "ignore"}
             THEN [status |-> "ok", service |-> [options EXCEPT !.dependent_startup = FALSE]]
             ELSE [status |-> "ok", service |-> options]
        ELSE [status |-> "ok", service |-> options]

\* mutant: a service with an unknown dependency loses all its dependencies
verify_dependencies_all(tbl, action) ==
    LET known(s) == DOMAIN tbl[s].wait_for_services \cap DOMAIN tbl
    IN  IF action = "exit" /\ \E s \in DOMAIN tbl : DOMAIN tbl[s].wait_for_services # known(s)
        THEN [status |-> "error", services |-> tbl]
        ELSE [status |-> "ok",
              services |-> [s \in DOMAIN tbl |->
                               IF DOMAIN tbl[s].wait_for_services = known(s) THEN tbl[s]
                               ELSE [tbl[s] EXCEPT !.wait_for_services = NoDeps]]]

\* ServicesHandler.verify_dependencies: a dependency on an unknown service is
\* an error under exit and is removed otherwise
verify_dependencies(tbl, action) ==
    LET known(s) == DOMAIN tbl[s].wait_for_services \cap DOMAIN tbl
    IN  IF action = "exit" /\ \E s \in DOMAIN tbl : DOMAIN tbl[s].wait_for_services # known(s)
        THEN [status |-> "error", services |-> tbl]
        ELSE [status |-> "ok",
              services |-> [s \in DOMAIN tbl |->
                               [tbl[s] EXCEPT !.wait_for_services =
                                   [dep \in known(s) |-> tbl[s].wait_for_services[dep]]]]]

\* ServicesHandler.parse_config: the sections are parsed, the dependencies
\* verified and the table is put in canonical order; the first error ends it
parse_config(conf, action) ==
    LET parsed == [name \in DOMAIN conf.programs |-> parse_section(conf, action, name)]
        tbl == [name \in DOMAIN conf.programs |-> parsed[name].service]
        verified == verify_dependencies(tbl, action)
        sorted == get_sorted_services_list(verified.services)
    IN  IF \E name \in DOMAIN parsed : parsed[name].status = "error"
        THEN [status |-> "error", services |-> <<>>, order |-> <<>>]
        ELSE IF verified.status = "error"
        THEN [status |-> "error", services |-> <<>>, order |-> <<>>]
        ELSE [status |-> sorted.status, services |-> verified.services,
              order |-> sorted.result]

----------------------------------------------------------------------------
(* The construction from config files *)

\* the number of words (service names and state names) of a wait_for value
MaxWords == 4

\* the services a token names: a program of the file and one that is not
TokenServices == {"consul", "nosuch"}

\* the state names a token is written with
StateWords == {"running", "EXITED", "Fatal", "bogus"}

\* the tokens service[:STATE[,STATE...]] of at most n words; no state is a
\* token without suffix
Tokens(n) ==
    {[service |-> service, states |-> states] :
        service \in TokenServices,
        states \in UNION {[1..k -> StateWords] : k \in 0..(n - 1)}}

\* the sequences of tokens of at most n words in all
RECURSIVE TokenLists(_)
TokenLists(n) ==
    {<<>>} \cup UNION {{<<t>> \o rest : rest \in TokenLists(n - 1 - Len(t.states))} :
                          t \in Tokens(n)}

\* "sep".join(texts)
RECURSIVE join(_, _)
join(texts, sep) ==
    IF texts = <<>> THEN <<>>
    ELSE IF Len(texts) = 1 THEN texts[1]
    ELSE texts[1] \o <<sep>> \o join(Tail(texts), sep)

\* a token as it is written in the file
token_text(t) ==
    IF t.states = <<>> THEN <<t.service>>
    ELSE <<t.service, ":">> \o join([i \in DOMAIN t.states |-> <<t.states[i]>>], ",")

\* the dependent_startup_wait_for value of a sequence of tokens
wait_for_text(tokens) == join([i \in DOMAIN tokens |-> token_text(tokens[i])], " ")

\* a managed program as the tests write it: autostart=false, dependent_startup=true
ManagedSection(wait_for) == Section({FALSE}, {TRUE}, wait_for, {}, {})

\* the wait_for option as the tokens write it; absent when there is none
written(tokens) == IF tokens = <<>> THEN {} ELSE {wait_for_text(tokens)}

\* the token of a dependency on consul in RUNNING
OnConsul(states) == <<[service |-> "consul", states |-> states]>>

\* consul and slurmd, slurmd with every wait_for value of at most MaxWords
\* words; a file notes the tokens that wrote the wait_for value of slurmd
WaitForFiles ==
    {[programs |-> "consul" :> ManagedSection({})
                @@ "slurmd" :> ManagedSection(written(tokens)),
      groups |-> <<>>, tokens |-> tokens] : tokens \in TokenLists(MaxWords)}

\* consul and slurmd with every value of autostart and dependent_startup
AutostartFiles ==
    {[programs |-> "consul" :> Section(a1, d1, {}, {}, {})
                @@ "slurmd" :> Section(a2, d2, written(OnConsul(<<"running">>)), {}, {}),
      groups |-> <<>>, tokens |-> OnConsul(<<"running">>)] :
        a1 \in {{}, {TRUE}, {FALSE}}, d1 \in {{}, {TRUE}, {FALSE}},
        a2 \in {{}, {TRUE}, {FALSE}}, d2 \in {{}, {TRUE}, {FALSE}}}

\* consul and slurmd, slurmd with one or several processes, its own process
\* names, in a [group:foo] section or not
ProcessFiles ==
    {[programs |-> "consul" :> ManagedSection({})
                @@ "slurmd" :> Section({FALSE}, {TRUE}, written(OnConsul(<<>>)), np[1], np[2]),
      groups |-> groups, tokens |-> OnConsul(<<>>)] :
        np \in {<<{}, {}>>, <<{}, {program_name_template}>>, <<{}, {"worker"}>>,
                <<{1}, {}>>, <<{1}, {program_name_template}>>, <<{1}, {numbered_template}>>,
                <<{2}, {numbered_template}>>},
        groups \in {<<>>, "foo" :> {"slurmd"}, "foo" :> {"consul", "slurmd"}}}

ConfigFiles == WaitForFiles \cup AutostartFiles \cup ProcessFiles

\* DependentStartup.__init__ before load_config
InitParse ==
    /\ parser \in ConfigFiles
    /\ error_action \in {"exit", "skip", "ignore"}
    /\ pc = "parse"
    /\ services = <<>>
    /\ order = <<>>
    /\ bad_commands = {}
    /\ procs_state = <<>>
    /\ proc_info = <<>>
    /\ startup_done = FALSE
    /\ start_first = {}
    /\ supervisor = <<>>
    /\ events = <<>>
    /\ nread = 0
    /\ nacked = 0
    /\ rpc_calls = <<>>
    /\ programs = <<>>
    /\ initial_start = "STARTED"

\* DependentStartup.load_config: ServicesHandler.parse_config on the file
ParseConfig ==
    /\ pc = "parse"
    /\ LET config == parse_config(parser, error_action)
       IN  /\ services' = config.services
           /\ order' = config.order
           /\ procs_state' = [p \in all_procs(config.services) |-> <<>>]
           /\ pc' = IF config.status = "ok" THEN "run" ELSE config.status
    /\ UNCHANGED <<programs, initial_start, parser, error_action, bad_commands, proc_info, startup_done,
                   start_first, supervisor, events, nread, nacked, rpc_calls>>

NextParse == ParseConfig

SpecParse == InitParse /\ [][NextParse]_vars

----------------------------------------------------------------------------
(* The properties *)

\* the positions in rpc_calls of the start calls of a service
calls_of(s) == {i \in DOMAIN rpc_calls : rpc_calls[i].service = s}

\* C1: a start RPC is issued for a service only when every dependency left in
\* its wait_for map has reached one of the states required of it (histories
\* only grow, so what held when the call was issued holds ever after).
C1_StartOnlyWithDependenciesMet ==
    \A i \in DOMAIN rpc_calls :
        LET s == rpc_calls[i].service
        IN  \A dep \in DOMAIN services[s].wait_for_services :
                has_reached_states(services, procs_state, dep,
                                   services[s].wait_for_services[dep])

\* C1 witness: a service with two dependencies has received a start call
C1_Witness ==
    \E i \in DOMAIN rpc_calls :
        Cardinality(DOMAIN services[rpc_calls[i].service].wait_for_services) = 2

\* C2 (as claimed): once a start call for a managed service has been accepted,
\* no further start call is issued for it
C2_NoSecondStart ==
    \A i, j \in DOMAIN rpc_calls :
        (i < j /\ rpc_calls[i].service = rpc_calls[j].service) => ~rpc_calls[i].ok

\* C3: once startup_done is true, no step issues a start RPC
C3_NoStartAfterDone ==
    [][startup_done => rpc_calls' = rpc_calls]_vars

\* C3 witness: the startup is done after start calls, and an event arrives
C3_Witness ==
    /\ startup_done
    /\ rpc_calls # <<>>
    /\ events # <<>>

\* C4: no start RPC before the first event has been read, neither in run()
\* nor while a candidate waits
C4_NoStartBeforeFirstEvent ==
    nread = 0 => rpc_calls = <<>>

\* C4 witness: run() has designated a candidate, supervisord has moved on, and
\* no event has been read
C4_Witness ==
    /\ pc = "listen"
    /\ start_first # {}
    /\ nread = 0
    /\ events # <<>>
    /\ rpc_calls = <<>>

\* the services a service depends on, directly or not
RECURSIVE depends_on(_, _)
depends_on(tbl, found) ==
    LET more == found \cup UNION {DOMAIN tbl[x].wait_for_services : x \in found}
    IN  IF more = found THEN found ELSE depends_on(tbl, more)

acyclic(tbl) ==
    \A s \in DOMAIN tbl : s \notin depends_on(tbl, DOMAIN tbl[s].wait_for_services)

\* C5: for an acyclic dependency graph the canonical order is computed, holds
\* every service exactly once, and holds every dependency of a service before
\* the service
C5_CanonicalOrderIsTopological ==
    (pc # "sort" /\ acyclic(services)) =>
        /\ pc = "run"
        /\ Len(order) = Cardinality(DOMAIN services)
        /\ Range(order) = DOMAIN services
        /\ \A i \in DOMAIN order :
               \A dep \in DOMAIN services[order[i]].wait_for_services :
                   \E j \in 1..(i - 1) : order[j] = dep

\* C5 witness: a chain of three services is ordered against the priorities
C5_Witness ==
    /\ pc = "run"
    /\ Len(order) = 3
    /\ order[1] \in DOMAIN services[order[2]].wait_for_services
    /\ order[2] \in DOMAIN services[order[3]].wait_for_services
    /\ priority_sort(services, order[3]) < priority_sort(services, order[2])
    /\ priority_sort(services, order[2]) < priority_sort(services, order[1])

\* every process has so far only gone from STOPPED to STARTING to RUNNING
starting_then_running ==
    /\ \A p \in DOMAIN supervisor : supervisor[p] \in {"STOPPED", "STARTING", "RUNNING"}
    /\ \A i \in DOMAIN events : events[i].state \in {"STARTING", "RUNNING"}
    /\ \A p \in DOMAIN procs_state : Range(procs_state[p]) \subseteq {"STARTING", "RUNNING"}

\* the services of the start calls, in the order of the calls
called_services == [i \in DOMAIN rpc_calls |-> rpc_calls[i].service]

\* C6: with consul, slurmd (consul:RUNNING, priority 10) and slurmd2
\* (consul:RUNNING slurmd:RUNNING), every process going STARTING then RUNNING,
\* the start calls are consul, slurmd, slurmd2 in this order, each accepted,
\* slurmd only once consul's RUNNING event is recorded, slurmd2 only once
\* slurmd's is, and the startup is done only after the three of them
C6_ConsulSlurmdSlurmd2 ==
    (services = ConsulSlurmd.programs /\ starting_then_running) =>
        /\ called_services = SubSeq(<<"consul", "slurmd", "slurmd2">>, 1, Len(rpc_calls))
        /\ Len(rpc_calls) <= 3
        /\ \A i \in DOMAIN rpc_calls : rpc_calls[i].ok
        /\ calls_of("slurmd") # {} => "RUNNING" \in Range(procs_state["consul"])
        /\ calls_of("slurmd2") # {} => "RUNNING" \in Range(procs_state["slurmd"])
        /\ startup_done => Len(rpc_calls) = 3

\* C6 witness: the scenario has run to its end with the three start calls
C6_Witness ==
    /\ services = ConsulSlurmd.programs
    /\ starting_then_running
    /\ startup_done
    /\ called_services = <<"consul", "slurmd", "slurmd2">>

\* the managed services that the last pass left not done, startable as the
\* scheduler sees them, and with their dependencies satisfied (the histories
\* and the cached process states change in a pass only)
eligible_after_pass ==
    {s \in DOMAIN services :
        /\ dependent_startup(services, s)
        /\ ~is_service_done(services, procs_state, s)
        /\ is_startable(services, proc_info, s)
        /\ service_wait_for_satisifed(services, procs_state, s)}

\* the event during whose processing the first start call of a service was issued
first_call_event(s) == rpc_calls[SetMin(calls_of(s))].event

\* C7: every managed service that a pass finds not done, startable and with
\* its dependencies satisfied has a start call issued in that pass; with two
\* services waiting for consul:RUNNING only, both are called in one pass, and
\* both are called as soon as consul's RUNNING event has been processed
C7_AllEligibleStartedInPass ==
    /\ (nread > 0 /\ pc = "listen") =>
           \A s \in eligible_after_pass :
               \E i \in calls_of(s) : rpc_calls[i].event = nread
    /\ services = TwoSimultaneous.programs =>
           /\ "RUNNING" \in Range(procs_state["consul"]) =>
                  (calls_of("consul2") # {} /\ calls_of("slurmd") # {})
           /\ (calls_of("consul2") # {} \/ calls_of("slurmd") # {}) =>
                  /\ calls_of("consul2") # {} /\ calls_of("slurmd") # {}
                  /\ first_call_event("consul2") = first_call_event("slurmd")

\* C7 witness: the pass that has just ended issued the start calls of consul2
\* and slurmd, and no event of either has been received
C7_Witness ==
    /\ services = TwoSimultaneous.programs
    /\ calls_of("consul2") # {} /\ calls_of("slurmd") # {}
    /\ first_call_event("consul2") = nread
    /\ first_call_event("slurmd") = nread
    /\ procs_state["consul2"] = <<>> /\ procs_state["slurmd"] = <<>>

\* the effective priority as the claims define it: the explicit priority when
\* one is set, else with inheritance the least effective priority of the
\* dependencies, else unset ({})
RECURSIVE claimed_effective_priority(_, _)
claimed_effective_priority(tbl, s) ==
    IF tbl[s].priority # {} THEN tbl[s].priority
    ELSE IF tbl[s].inherit_priority
         THEN LET inherited == UNION {claimed_effective_priority(tbl, dep) :
                                         dep \in DOMAIN tbl[s].wait_for_services}
              IN  IF inherited = {} THEN {} ELSE {SetMin(inherited)}
         ELSE {}

\* the position of a service in the canonical order
position(s) == CHOOSE i \in DOMAIN order : order[i] = s

\* C8 (as claimed): the start calls of one pass of start_services are in
\* non-decreasing effective priority, a service without priority after every
\* service with one, and services of equal priority in canonical order
C8_StartsInPriorityOrder ==
    \A i, j \in DOMAIN rpc_calls :
        (/\ i < j
         /\ rpc_calls[i].event = rpc_calls[j].event
         /\ ~rpc_calls[i].first /\ ~rpc_calls[j].first) =>
            LET a == claimed_effective_priority(services, rpc_calls[i].service)
                b == claimed_effective_priority(services, rpc_calls[j].service)
            IN  /\ ~(a = {} /\ b # {})
                /\ (a # {} /\ b # {}) => SetMin(a) <= SetMin(b)
                /\ a = b => position(rpc_calls[i].service) < position(rpc_calls[j].service)

\* the start calls that supervisord rejected with a fault
rejected_calls == {i \in DOMAIN rpc_calls : ~rpc_calls[i].ok}

\* C9: a start call rejected with a fault does not end the event loop; the
\* rejected service has not been spawned and has no state recorded; the pass
\* of the rejected call still issues the start call of every other eligible
\* service; and a pass changes the histories by the state of its event only
C9_RejectedStartIsIgnored ==
    /\ [](rejected_calls # {} => pc = "listen")
    /\ [](\A i \in rejected_calls :
              \A p \in procs(services, rpc_calls[i].service) :
                  /\ supervisor[p] = "STOPPED"
                  /\ procs_state[p] = <<>>)
    /\ []((\E i \in rejected_calls : rpc_calls[i].event = nread) =>
              \A s \in eligible_after_pass :
                  \E j \in calls_of(s) : rpc_calls[j].event = nread)
    /\ [][procs_state' # procs_state =>
              /\ events # <<>>
              /\ procs_state' = update_state_event(services, procs_state,
                                     Head(events).processname, Head(events).state)]_vars

\* C9 witness: a start call was rejected, a later call of the same pass was
\* accepted, and the scheduler has processed a later event
C9_Witness ==
    /\ pc = "listen"
    /\ \E i \in rejected_calls :
           /\ \E j \in DOMAIN rpc_calls :
                  /\ i < j
                  /\ rpc_calls[j].event = rpc_calls[i].event
                  /\ rpc_calls[j].ok
           /\ nread > rpc_calls[i].event
           /\ nacked = nread

\* a service whose start call was rejected is not done, and the startup is
\* not done while it has reached neither RUNNING nor FATAL
C10_RemainsPending ==
    \A i \in rejected_calls :
        ~is_service_done(services, procs_state, rpc_calls[i].service) =>
            ~startup_done

\* after a rejected start call of a service, the next start call of the
\* service is issued while a later event is processed
C10_NoRetryBeforeNextEvent ==
    \A i \in rejected_calls :
        \A j \in calls_of(rpc_calls[i].service) :
            i < j => rpc_calls[i].event < rpc_calls[j].event

\* every pass after a rejected start call takes the service up again: while
\* the service stays startable with its dependencies satisfied, each later
\* event brings a start call of it
C10_ReevaluatedOnEachEvent ==
    (nread > 0 /\ pc = "listen") =>
        \A i \in rejected_calls :
            rpc_calls[i].service \in eligible_after_pass =>
                \E j \in calls_of(rpc_calls[i].service) : rpc_calls[j].event = nread

\* C10 (as claimed): a service whose start call failed remains pending and
\* keeps the startup from being done, no second start call of it is issued
\* before the next event, and every later event re-evaluates it
C10_FailedStartRemainsPending ==
    /\ C10_RemainsPending
    /\ C10_NoRetryBeforeNextEvent
    /\ C10_ReevaluatedOnEachEvent

on_cycle(tbl) ==
    {s \in DOMAIN tbl : s \in depends_on(tbl, DOMAIN tbl[s].wait_for_services)}

RECURSIVE layer_of(_, _)
layer_of(tbl, s) ==
    LET deps == DOMAIN tbl[s].wait_for_services \ {s}
    IN  IF deps = {} THEN 0
        ELSE 1 + CHOOSE n \in {layer_of(tbl, dep) : dep \in deps} :
                     \A m \in {layer_of(tbl, dep) : dep \in deps} : m <= n

\* (effective priority, name) ascending, a service without priority after
\* every service with one
claimed_key_less(tbl, a, b) ==
    LET pa == claimed_effective_priority(tbl, a)
        pb == claimed_effective_priority(tbl, b)
    IN  \/ pa # {} /\ pb = {}
        \/ pa # {} /\ pb # {} /\ SetMin(pa) < SetMin(pb)
        \/ pa = pb /\ name_rank(a) < name_rank(b)

\* C13 (as claimed): two services of one layer stand in the canonical order
\* by (effective priority, name), a service without priority after every
\* service of the layer with an explicit priority, whatever its value
C13_LayerSortedByPriorityAndName ==
    (pc = "run" /\ acyclic(services)) =>
        \A i, j \in DOMAIN order :
            (i < j /\ layer_of(services, order[i]) = layer_of(services, order[j])) =>
                claimed_key_less(services, order[i], order[j])

\* C14 (as claimed): the effective priority of a service with inherit_priority
\* is its explicit priority when it has one, else the least effective
\* priority of its dependencies, else unset
C14_InheritedPriority ==
    (pc = "run" /\ acyclic(services)) =>
        \A s \in DOMAIN services :
            services[s].inherit_priority =>
                priority_effective(services, s) = claimed_effective_priority(services, s)

\* C15 (as claimed): without inherit_priority the sortable priority of a
\* service is its explicit priority, 0 included, whatever its dependencies;
\* without an explicit priority it is the sentinel and priority_effective is
\* unset
C15_ExplicitPriority ==
    pc # "sort" =>
        \A s \in DOMAIN services :
            ~services[s].inherit_priority =>
                IF priority(services, s) # {}
                THEN priority_sort(services, s) = SetMin(priority(services, s))
                ELSE /\ priority_sort(services, s) = default_priority_sort
                     /\ priority_effective(services, s) = {}

\* an event with the state has been recorded for the process
recorded(procname, state) ==
    \E i \in DOMAIN procs_state[procname] : procs_state[procname][i] = state

\* C16: has_reached_states(states) is true exactly when one state of the list
\* has been recorded for every process of the service, at whatever times;
\* processes that reached different states of the list do not count
C16_HasReachedStates ==
    \A s \in DOMAIN services :
        \A states \in SUBSET valid_wait_on_states :
            has_reached_states(services, procs_state, s, states) <=>
                \E state \in states :
                    \A i \in DOMAIN services[s].procnames :
                        recorded(services[s].procnames[i], state)

\* C16 witness: of the two processes of slurmd one has reached RUNNING and
\* the other BACKOFF, and the service has not reached {RUNNING, BACKOFF}
C16_Witness ==
    /\ services = NumprocsTwo.programs
    /\ recorded("slurmd_00", "RUNNING") /\ ~recorded("slurmd_00", "BACKOFF")
    /\ recorded("slurmd_01", "BACKOFF") /\ ~recorded("slurmd_01", "RUNNING")
    /\ ~has_reached_states(services, procs_state, "slurmd", {"RUNNING", "BACKOFF"})

\* the managed services of the table
managed == {s \in DOMAIN services : dependent_startup(services, s)}

\* C17: a pass of the listen loop sets startup_done exactly when, with the
\* state of its event recorded, every managed service has reached RUNNING or
\* FATAL; the pass that sets it issues no start call
C17_DoneExactlyWhenAllDone ==
    [][(pc = "listen" /\ ~startup_done /\ nread' = nread + 1) =>
          LET hist == update_state_event(services, procs_state,
                                         Head(events).processname, Head(events).state)
          IN  /\ startup_done' <=>
                     \A s \in managed :
                         has_reached_states(services, hist, s, {"RUNNING", "FATAL"})
              /\ startup_done' => rpc_calls' = rpc_calls]_vars

\* C17 witness: the last pass found the last of several managed services
\* done and set startup_done; every start call is of an earlier pass
C17_Witness ==
    /\ startup_done
    /\ nread > 0
    /\ Cardinality(managed) >= 2
    /\ \A s \in managed : calls_of(s) # {}
    /\ \A i \in DOMAIN rpc_calls : rpc_calls[i].event < nread

\* C18: whenever the scheduler is DONE every managed service has reached
\* RUNNING or FATAL; the startup never ends with a managed service pending
C18_DoneOnlyWhenAllDone ==
    startup_done =>
        \A s \in managed :
            has_reached_states(services, procs_state, s, {"RUNNING", "FATAL"})

\* the services run() may pick as the first to start: managed, not autostart,
\* startable and with every dependency satisfied
bootstrap_candidates ==
    {s \in managed : /\ ~services[s].autostart
                     /\ is_startable(services, supervisor, s)
                     /\ service_wait_for_satisifed(services, procs_state, s)}

\* C19: when run() finds no bootstrap candidate the scheduler is DONE at once;
\* from then on the listen loop reads no event and no start call is issued
C19_NoCandidateGoesStraightToDone ==
    /\ [][(pc = "run" /\ pc' = "listen" /\ bootstrap_candidates = {}) =>
              (startup_done' /\ nread' = 0 /\ rpc_calls' = <<>>)]_vars
    /\ [][(pc = "listen" /\ startup_done /\ nread = 0) =>
              (startup_done' /\ nread' = 0 /\ rpc_calls' = <<>>)]_vars

\* C19 witness: run() found no candidate, events are waiting and none is read
C19_Witness ==
    /\ pc = "listen"
    /\ startup_done
    /\ nread = 0
    /\ rpc_calls = <<>>
    /\ Len(events) >= 2
    /\ \E s \in managed : ~is_service_done(services, procs_state, s)

\* C20: every event the event source delivers is received and acknowledged,
\* also after DONE: what the loop has read it has acknowledged, and an event
\* is never left waiting at a loop that has stopped reading
C20_EveryEventAcknowledged ==
    pc = "listen" =>
        /\ nacked = nread
        /\ events # <<>> => ~startup_done

\* a dependency of the service has reached none of the states required of it
blocked(s) ==
    \E dep \in DOMAIN services[s].wait_for_services :
        ~has_reached_states(services, procs_state, dep,
                            services[s].wait_for_services[dep])

\* C21: while a dependency of a managed service has reached none of its
\* required states the service has not been started and the scheduler is not
\* DONE, whatever events have been processed
C21_BlockedStaysPending ==
    \A s \in managed :
        blocked(s) => (calls_of(s) = {} /\ ~startup_done)

\* C22: a service with a process that has reached FATAL receives no start call
\* any more; a managed single-process service that went STARTING, BACKOFF,
\* FATAL has received exactly one start call
C22_NoStartAfterFatal ==
    /\ [][\A s \in DOMAIN services :
              (\E p \in procs(services, s) : supervisor[p] = "FATAL") =>
                  {i \in DOMAIN rpc_calls' : rpc_calls'[i].service = s} = calls_of(s)]_vars
    /\ [](\A s \in managed :
              (/\ Len(services[s].procnames) = 1
               /\ procs_state[services[s].procnames[1]] = <<"STARTING", "BACKOFF", "FATAL">>)
                  => Cardinality(calls_of(s)) = 1)

\* C22 witness: the bootstrap service went BACKOFF and FATAL, every event has
\* been handled and the scheduler is DONE
C22_Witness ==
    /\ services = ConsulAlone.programs
    /\ procs_state["consul"] = <<"STARTING", "BACKOFF", "FATAL">>
    /\ supervisor["consul"] = "FATAL"
    /\ Cardinality(calls_of("consul")) = 1
    /\ startup_done

\* the states of a process in which is_startable refuses its service
not_startable_states == {"RUNNING", "STARTING", "BACKOFF", "FATAL"}

\* the start calls a step adds to rpc_calls
new_calls == (DOMAIN rpc_calls') \ (DOMAIN rpc_calls)

\* C23: in every state, start_service called for a service with a process in
\* RUNNING, STARTING, BACKOFF or FATAL issues no RPC and changes nothing at
\* supervisord; and no step sends a start RPC for a service with a process
\* in one of these states (the state before the step, or STARTING by an
\* earlier call of the same step)
C23_NoRpcUnlessStartable ==
    /\ [](\A s \in DOMAIN services :
              (pc = "listen" /\ \E p \in procs(services, s) :
                                  supervisor[p] \in not_startable_states) =>
                  LET w == start_service(services, bad_commands, World(events), s, nread)
                  IN  /\ w.calls = rpc_calls
                      /\ w.sup = supervisor
                      /\ w.evq = events)
    /\ [][\A i \in new_calls :
              \A p \in procs(services, rpc_calls'[i].service) :
                  /\ supervisor[p] \notin not_startable_states
                  /\ ~\E j \in new_calls :
                         /\ j < i
                         /\ rpc_calls'[j].ok
                         /\ p \in procs(services, rpc_calls'[j].service)]_vars

\* C23 witness: the bootstrap service is pending (only STARTING is recorded),
\* its process is not startable, its STARTING event has been handled and no
\* second call was made
C23_Witness ==
    /\ services = ConsulSlurmd.programs
    /\ procs_state["consul"] = <<"STARTING">>
    /\ supervisor["consul"] \in not_startable_states
    /\ nread >= 2
    /\ Len(rpc_calls) = 1

\* the dependencies of a program as its section declares them
declared(name) == parse_section(parser, error_action, name).service.wait_for_services

\* the dependencies declared on a service the file does not have
unknown(name) == DOMAIN declared(name) \ DOMAIN parser.programs

\* histories in which every process has reached every state
every_state_reached ==
    [p \in all_procs(services) |->
        <<"STARTING", "RUNNING", "BACKOFF", "STOPPING", "EXITED", "FATAL">>]

\* C24: with a dependency on an unknown service the construction fails under
\* exit; under skip and ignore it goes on, the table has every declared
\* dependency on a known service with its declared states and no other, and
\* a service whose known dependencies are satisfied is not kept waiting
C24_UnknownDependencies ==
    pc # "parse" =>
        /\ (error_action = "exit" /\ \E name \in DOMAIN parser.programs : unknown(name) # {})
               => pc = "error"
        /\ error_action \in {"skip", "ignore"} =>
               /\ pc = "run"
               /\ \A s \in DOMAIN parser.programs :
                      /\ DOMAIN services[s].wait_for_services = DOMAIN declared(s) \ unknown(s)
                      /\ DOMAIN services[s].wait_for_services \subseteq DOMAIN services
                      /\ \A dep \in DOMAIN services[s].wait_for_services :
                             services[s].wait_for_services[dep] = declared(s)[dep]
                      /\ (\A dep \in DOMAIN services[s].wait_for_services :
                              services[s].wait_for_services[dep] # {})
                             => service_wait_for_satisifed(services, every_state_reached, s)

\* C24 witness: under skip slurmd declared a dependency on an unknown service
\* and one on consul with two states, and the table is built
C24_Witness ==
    /\ pc = "run"
    /\ error_action = "skip"
    /\ unknown("slurmd") = {"nosuch"}
    /\ "consul" \in DOMAIN services["slurmd"].wait_for_services
    /\ services["slurmd"].wait_for_services["consul"] = {"RUNNING", "EXITED"}

\* the section asks for dependent_startup and does not set autostart to false
conflict(name) ==
    /\ parser.programs[name].dependent_startup = {TRUE}
    /\ parser.programs[name].autostart # {FALSE}

\* the cached view with every process stopped
all_stopped == [p \in all_procs(services) |-> "STOPPED"]

\* the service is neither a bootstrap candidate of run() nor pending in
\* start_services, whatever the histories
never_started(s) ==
    \A hist \in {procs_state, every_state_reached} :
        /\ find_start_first(services, order, hist, all_stopped) # {s}
        /\ s \notin Range(service_to_be_started(services, order, hist))

\* C25: a section with dependent_startup and without autostart=false ends the
\* construction in error under exit; under skip and ignore the construction
\* goes on and exactly these services are no longer managed; in every table
\* built the managed services have autostart false, and the scheduler does
\* not start a service that is not managed
C25_AutostartConflict ==
    pc # "parse" =>
        /\ (error_action = "exit" /\ \E name \in DOMAIN parser.programs : conflict(name))
               => pc = "error"
        /\ error_action \in {"skip", "ignore"} =>
               /\ pc = "run"
               /\ \A s \in DOMAIN parser.programs :
                      /\ services[s].dependent_startup =
                             (parser.programs[s].dependent_startup = {TRUE} /\ ~conflict(s))
                      /\ conflict(s) => never_started(s)
        /\ pc = "run" =>
               \A s \in DOMAIN services :
                   services[s].dependent_startup => ~services[s].autostart

\* C25 witness: under ignore a table is built from a file in which slurmd has
\* dependent_startup with autostart left at its default, and consul is managed
C25_Witness ==
    /\ pc = "run"
    /\ error_action = "ignore"
    /\ parser.programs["slurmd"].dependent_startup = {TRUE}
    /\ parser.programs["slurmd"].autostart = {}
    /\ ~services["slurmd"].dependent_startup
    /\ services["consul"].dependent_startup

\* C26: a service with a dependency whose set of required states is empty
\* is not satisfied, now or with every state reached by every process, and
\* has received no start call
C26_EmptyStatesNeverSatisfied ==
    \A s \in DOMAIN services :
        (\E dep \in DOMAIN services[s].wait_for_services :
            services[s].wait_for_services[dep] = {}) =>
                /\ ~service_wait_for_satisifed(services, procs_state, s)
                /\ ~service_wait_for_satisifed(services, every_state_reached, s)
                /\ calls_of(s) = {}

\* C26 witness: consul has reached RUNNING and EXITED, the events have been
\* handled, and slurmd, waiting for consul with no valid state, is not started
C26_Witness ==
    /\ services = EmptyStates.programs
    /\ recorded("consul", "RUNNING")
    /\ recorded("consul", "EXITED")
    /\ calls_of("slurmd") = {}
    /\ ~startup_done

\* the valid state a word spells when the case of its letters is ignored
spelled ==
    [w \in StateWords |->
        CASE w = "running" -> {"RUNNING"}
          [] w = "EXITED" -> {"EXITED"}
          [] w = "Fatal" -> {"FATAL"}
          [] OTHER -> {}]

\* C27: every token of a wait_for value gives one dependency on its service;
\* the states of the dependency are those of the (last) token of the service:
\* RUNNING without suffix, else the valid states its words spell in any case,
\* the other words being dropped
C27_ParseWaitFor ==
    pc # "parse" =>
        LET tokens == parser.tokens
            deps == declared("slurmd")
            last(service) == tokens[CHOOSE i \in DOMAIN tokens :
                                       /\ tokens[i].service = service
                                       /\ \A j \in DOMAIN tokens :
                                              tokens[j].service = service => j <= i]
        IN  /\ parser.programs["slurmd"].wait_for = written(tokens)
            /\ DOMAIN deps = {tokens[i].service : i \in DOMAIN tokens}
            /\ \A service \in DOMAIN deps :
                   deps[service] =
                       IF last(service).states = <<>> THEN {"RUNNING"}
                       ELSE UNION {spelled[last(service).states[i]] :
                                      i \in DOMAIN last(service).states}

\* C27 witness: a value of two tokens, the first without suffix, the second
\* with a lower-case state and an invalid one
C27_Witness ==
    /\ pc = "run"
    /\ parser.programs["slurmd"].wait_for =
           {<<"nosuch", " ", "consul", ":", "running", ",", "bogus">>}
    /\ declared("slurmd") = ("nosuch" :> {"RUNNING"}) @@ ("consul" :> {"RUNNING"})

\* the service is a program of a [group:x] section
in_declared_group(s) == services[s].group # s

\* the service has several process instances
multi_instance(s) == Len(services[s].procnames) > 1

\* start_service on a service whose processes can all be started issues
\* exactly one RPC
one_rpc_per_start ==
    \A s \in DOMAIN services :
        (pc = "listen" /\ \A p \in procs(services, s) :
                             supervisor[p] \notin not_startable_states) =>
            Len(start_service(services, bad_commands, World(events), s, nread).calls)
                = Len(rpc_calls) + 1

C29_GroupAndProcname ==
    pc = "run" =>
        \A s \in DOMAIN services :
            LET name == group_and_procname(services, s)
            IN  /\ (/\ ~multi_instance(s)
                    /\ services[s].procnames[1] = s
                    /\ ~in_declared_group(s)) => name = <<s>>
                /\ (in_declared_group(s) \/ multi_instance(s)) =>
                       \E p \in procs(services, s) : name = <<services[s].group, p>>

\* C29, amended: for a single process group_and_procname is the bare service
\* name when the process is named like the service outside the declared
\* groups, and group:processName otherwise; for several processes it names
\* the service, not a process: the bare service name outside the declared
\* groups, group:serviceName inside
C29_GroupAndProcnameByCase ==
    pc = "run" =>
        \A s \in DOMAIN services :
            group_and_procname(services, s) =
                IF multi_instance(s)
                THEN IF in_declared_group(s) THEN <<services[s].group, s>> ELSE <<s>>
                ELSE IF in_declared_group(s) \/ services[s].procnames[1] # s
                     THEN <<services[s].group, services[s].procnames[1]>>
                     ELSE <<s>>

\* C29 witness: slurmd with numprocs=2 and numbered process names, outside
\* the declared groups, is named slurmd
C29_Witness ==
    /\ pc = "run"
    /\ services["slurmd"].procnames = <<"slurmd_00", "slurmd_01">>
    /\ services["slurmd"].group = "slurmd"
    /\ services["consul"].group = "consul"
    /\ group_and_procname(services, "slurmd") = <<"slurmd">>

\* C30: the events are handled one after the other: an event is read only
\* when every event read before is acknowledged; the pass of an event records
\* its state, then starts every service that is pending, startable and
\* satisfied with that state recorded and no other, all before it
\* acknowledges the event, once
C30_StrictlySequential ==
    /\ [](pc = "listen" => nacked = nread)
    /\ [][nread' # nread =>
              LET hist == update_state_event(services, procs_state,
                                             Head(events).processname, Head(events).state)
              IN  /\ nacked = nread
                  /\ nread' = nread + 1
                  /\ nacked' = nread'
                  /\ procs_state' = hist
                  /\ SubSeq(rpc_calls', 1, Len(rpc_calls)) = rpc_calls
                  /\ \A i \in new_calls :
                         /\ rpc_calls'[i].event = nread'
                         /\ service_wait_for_satisifed(services, hist, rpc_calls'[i].service)
                  /\ \A s \in managed :
                         (/\ ~has_reached_states(services, hist, s, {"RUNNING", "FATAL"})
                          /\ \A dep \in DOMAIN services[s].wait_for_services :
                                 has_reached_states(services, hist, dep,
                                                    services[s].wait_for_services[dep])
                          /\ \A p \in procs(services, s) :
                                 supervisor[p] \notin not_startable_states)
                             => \E i \in new_calls : rpc_calls'[i].service = s]_vars

\* C30 witness: the third event, RUNNING of consul, has been recorded, slurmd
\* has been started in its pass and the event is acknowledged
C30_Witness ==
    /\ services = ConsulSlurmd.programs
    /\ nread = 3
    /\ nacked = 3
    /\ procs_state["consul"] = <<"STARTING", "RUNNING">>
    /\ \E i \in calls_of("slurmd") : rpc_calls[i].event = 3

\* the position of the scheduler: INITIALIZING, LISTENING, DONE
scheduler_rank ==
    IF startup_done THEN 2 ELSE IF pc = "run" THEN 0 ELSE 1

\* C31: start_first is set by run() alone and is consumed by the pass of the
\* first event: the first start call of that pass goes to it, as the deferred
\* first start (start_service issues none when supervisord has started the
\* service in the meantime), and start_first is empty from then on; no other
\* call is a deferred first start; the scheduler only moves forward and startup_done
\* never goes back to false
C31_StartFirstConsumedOnce ==
    /\ [](/\ Cardinality(start_first) <= 1
          /\ (nread >= 1 => start_first = {})
          /\ \A i \in DOMAIN rpc_calls :
                 rpc_calls[i].first => (i = 1 /\ rpc_calls[i].event = 1))
    /\ [][/\ (start_first' # start_first =>
                  ((pc = "run" /\ start_first = {}) \/ start_first' = {}))
           /\ ((nread = 0 /\ nread' = 1 /\ start_first # {}) =>
                  (/\ start_first' = {}
                   /\ IF \A s \in start_first : \A p \in procs(services, s) :
                             supervisor[p] \notin not_startable_states
                      THEN /\ Len(rpc_calls') > Len(rpc_calls)
                           /\ rpc_calls'[Len(rpc_calls) + 1].service \in start_first
                           /\ rpc_calls'[Len(rpc_calls) + 1].first
                      ELSE \A i \in new_calls :
                               /\ rpc_calls'[i].service \notin start_first
                               /\ ~rpc_calls'[i].first))
           /\ scheduler_rank' >= scheduler_rank
           /\ (startup_done => startup_done')]_vars

\* C31 witness: consul was held back by run(), started first in the pass of
\* the first event, slurmd was started in a later pass and the startup is done
C31_Witness ==
    /\ services = NumprocsTwo.programs
    /\ startup_done
    /\ start_first = {}
    /\ rpc_calls[1].service = "consul"
    /\ rpc_calls[1].first
    /\ \E i \in calls_of("slurmd") : rpc_calls[i].event > 1

\* the lists of states the program asks has_reached_states about: the states
\* of is_service_done and the required states of the dependencies
asked_states ==
    {{"RUNNING", "FATAL"}} \cup {{state} : state \in valid_wait_on_states}
    \cup UNION {Range(services[s].wait_for_services) : s \in DOMAIN services}

\* C32: the histories only grow by appending; recording again a state that
\* is recorded changes no result of has_reached_states; a service that is
\* done stays done and a service whose dependencies are satisfied keeps them
\* satisfied; no start call goes to a service that is done, whatever
\* supervisord reports for it since
C32_HistoriesOnlyGrow ==
    /\ [](\A p \in DOMAIN procs_state :
             \A state \in Range(procs_state[p]) :
                 \A s \in DOMAIN services :
                     \A states \in asked_states :
                         has_reached_states(services,
                             process_state_update(procs_state, p, state), s, states)
                         <=> has_reached_states(services, procs_state, s, states))
    /\ [][/\ DOMAIN procs_state' = DOMAIN procs_state
           /\ \A p \in DOMAIN procs_state :
                  /\ Len(procs_state'[p]) >= Len(procs_state[p])
                  /\ SubSeq(procs_state'[p], 1, Len(procs_state[p])) = procs_state[p]
           /\ \A s \in DOMAIN services :
                  /\ (is_service_done(services, procs_state, s)
                         => is_service_done(services, procs_state', s))
                  /\ (service_wait_for_satisifed(services, procs_state, s)
                         => service_wait_for_satisifed(services, procs_state', s))
           /\ \A i \in new_calls :
                  ~is_service_done(services, procs_state', rpc_calls'[i].service)]_vars

\* C32 witness: consul has reached RUNNING and then EXITED while slurmd is
\* pending; supervisord reports it EXITED, which is startable, and it has
\* been started once
C32_Witness ==
    /\ services = ConsulSlurmd.programs
    /\ procs_state["consul"] = <<"STARTING", "RUNNING", "EXITED">>
    /\ supervisor["consul"] = "EXITED"
    /\ is_service_done(services, procs_state, "consul")
    /\ service_wait_for_satisifed(services, procs_state, "slurmd")
    /\ ~startup_done
    /\ Cardinality(calls_of("consul")) = 1

\* C33: every start call goes to a service with dependent_startup set and
\* autostart off; a service supervisord starts on its own receives none,
\* also when a managed service waits for it
C33_OnlyManagedServicesStarted ==
    \A i \in DOMAIN rpc_calls :
        /\ rpc_calls[i].service \in DOMAIN services
        /\ services[rpc_calls[i].service].dependent_startup
        /\ ~services[rpc_calls[i].service].autostart

\* C33 witness: slurmd waits for consul and for the autostart program
\* unhandled; both have reached RUNNING, slurmd has been started and unhandled
\* has received no start call
C33_Witness ==
    /\ services = Unhandled.programs
    /\ ~services["unhandled"].dependent_startup
    /\ "unhandled" \in DOMAIN services["slurmd"].wait_for_services
    /\ recorded("unhandled", "RUNNING")
    /\ calls_of("slurmd") # {}
    /\ calls_of("unhandled") = {}

\* C34: only the states recorded from events satisfy a dependency or make a
\* service done, whatever state supervisord reports: while a process of a
\* dependency has no recorded state the dependent is not satisfied and has
\* received no start call, a service is done only with a state recorded for
\* each process, and the service run() holds back to start first has no
\* dependency
C34_DecidedFromEventsOnly ==
    /\ \A s \in DOMAIN services :
           /\ \A dep \in DOMAIN services[s].wait_for_services :
                  (\E p \in procs(services, dep) : procs_state[p] = <<>>)
                      => /\ ~service_wait_for_satisifed(services, procs_state, s)
                         /\ calls_of(s) = {}
           /\ is_service_done(services, procs_state, s)
                  => \A p \in procs(services, s) : procs_state[p] # <<>>
    /\ \A s \in start_first : DOMAIN services[s].wait_for_services = {}

\* C34 witness: consul was RUNNING before the listener started and is RUNNING
\* still; a pass has issued the start call of consul2, and slurmd, which
\* waits for consul RUNNING, has received none
C34_Witness ==
    /\ services = AlreadyRunning.programs
    /\ nread > 0
    /\ supervisor["consul"] = "RUNNING"
    /\ proc_info["consul"] = "RUNNING"
    /\ procs_state["consul"] = <<>>
    /\ calls_of("consul2") # {}
    /\ calls_of("slurmd") = {}
    /\ ~startup_done

\* the managed services of several processes
multi_process == {s \in managed : Len(services[s].procnames) > 1}

\* one process of the service has reached FATAL and not RUNNING, and another
\* has not reached FATAL
partly_failed(s) ==
    /\ \E p \in procs(services, s) : recorded(p, "FATAL") /\ ~recorded(p, "RUNNING")
    /\ \E p \in procs(services, s) : ~recorded(p, "FATAL")

\* C35: a service of several processes is done exactly when RUNNING is
\* recorded for every process or FATAL is recorded for every process; while
\* one process has reached FATAL and not RUNNING and another has not reached
\* FATAL, the service is not done and the startup is not done, and a service
\* with a process in FATAL receives no start call
C35_PartlyFailedNeverDone ==
    /\ [](\A s \in multi_process :
             /\ is_service_done(services, procs_state, s)
                    <=> \/ \A p \in procs(services, s) : recorded(p, "RUNNING")
                        \/ \A p \in procs(services, s) : recorded(p, "FATAL")
             /\ partly_failed(s)
                    => /\ ~is_service_done(services, procs_state, s)
                       /\ ~startup_done)
    /\ [][\A s \in multi_process :
              (\E p \in procs(services, s) : supervisor[p] = "FATAL" \/ recorded(p, "FATAL"))
                  => \A i \in new_calls : rpc_calls'[i].service # s]_vars

\* C35 witness: slurmd_00 has gone to FATAL and slurmd_01 to RUNNING; later
\* events have been handled, slurmd has been started once and the startup is
\* not done
C35_Witness ==
    /\ services = NumprocsAlone.programs
    /\ procs_state["slurmd_00"] = <<"STARTING", "BACKOFF", "FATAL">>
    /\ procs_state["slurmd_01"] = <<"STARTING", "RUNNING">>
    /\ events = <<>>
    /\ Cardinality(calls_of("slurmd")) = 1
    /\ ~startup_done

\* C36: the pass of an event appends the state to the history of the process
\* of the event when a service owns it and changes no other history; an
\* event of a process that no service owns (the listener's own) changes no
\* history and creates none, and its pass still consumes start_first and
\* starts every service that is pending, startable and satisfied
C36_EventChangesOneHistory ==
    [][nread' # nread =>
          LET ev == Head(events)
          IN  /\ DOMAIN procs_state' = DOMAIN procs_state
              /\ \A p \in DOMAIN procs_state :
                     procs_state'[p] = IF p = ev.processname
                                       THEN Append(procs_state[p], ev.state)
                                       ELSE procs_state[p]
              /\ ev.processname \notin all_procs(services) =>
                     /\ procs_state' = procs_state
                     /\ start_first' = {}
                     /\ \A s \in start_first :
                            (\A p \in procs(services, s) :
                                 supervisor[p] \notin not_startable_states)
                                => \E i \in new_calls : rpc_calls'[i].service = s
                     /\ \A s \in managed :
                            (/\ ~is_service_done(services, procs_state, s)
                             /\ service_wait_for_satisifed(services, procs_state, s)
                             /\ \A p \in procs(services, s) :
                                    supervisor[p] \notin not_startable_states)
                                => \E i \in new_calls : rpc_calls'[i].service = s]_vars

\* C36 witness: the one event handled is RUNNING of the listener's own
\* process; no history holds a state and consul, held back by run(), has
\* been started
C36_Witness ==
    /\ services = ConsulSlurmd.programs
    /\ nread = 1
    /\ supervisor[dependent_startup_service_name] = "RUNNING"
    /\ \A p \in DOMAIN procs_state : procs_state[p] = <<>>
    /\ start_first = {}
    /\ calls_of("consul") # {}

\* the services run() can hold back: managed, not autostart, no process
\* running, starting, in backoff or fatal in supervisord, every dependency
\* satisfied by the histories
run_eligible ==
    {s \in DOMAIN services :
        /\ services[s].dependent_startup
        /\ ~services[s].autostart
        /\ \A p \in procs(services, s) : supervisor[p] \notin not_startable_states
        /\ \A dep \in DOMAIN services[s].wait_for_services :
               has_reached_states(services, procs_state, dep,
                                  services[s].wait_for_services[dep])}

\* C38: run() holds back at most one service: the one of run_eligible that
\* stands first in the order of the table, and none when there is none
C38_FirstEligibleInOrder ==
    [][(pc = "run" /\ pc' = "listen") =>
          /\ Cardinality(start_first') <= 1
          /\ start_first' \subseteq run_eligible
          /\ (run_eligible # {} => start_first' # {})
          /\ \A s \in start_first' :
                 \A t \in run_eligible : position(s) <= position(t)]_vars

\* C38 witness: consul stands first in the table and is RUNNING when run()
\* looks; run() has held back consul2, the next in the table
C38_Witness ==
    /\ services = AlreadyRunning.programs
    /\ pc = "listen"
    /\ nread = 0
    /\ order[1] = "consul"
    /\ proc_info["consul"] = "RUNNING"
    /\ start_first = {"consul2"}

----------------------------------------------------------------------------
(* The runs in which every start succeeds and every process comes up *)

\* the configurations in which every service is managed and STOPPED, every
\* command can be spawned, every dependency is a service of the table waited
\* for in RUNNING, and no service depends on itself
LiveConfigs ==
    {c \in Configs :
        /\ c.bad = {}
        /\ c.running = {}
        /\ acyclic(c.programs)
        /\ \A s \in DOMAIN c.programs :
               /\ c.programs[s].dependent_startup
               /\ ~c.programs[s].autostart
               /\ \A dep \in DOMAIN c.programs[s].wait_for_services :
                      /\ dep \in DOMAIN c.programs
                      /\ c.programs[s].wait_for_services[dep] = {"RUNNING"}}

InitLive ==
    /\ Init
    /\ \E c \in LiveConfigs : services = c.programs

\* supervisord: a process in STARTING (the listener, a started program) comes
\* up and its RUNNING event is buffered
ProcessRuns ==
    /\ \E p \in DOMAIN supervisor :
           /\ supervisor[p] = "STARTING"
           /\ supervisor' = [supervisor EXCEPT ![p] = "RUNNING"]
           /\ events' = Append(events, [processname |-> p, state |-> "RUNNING"])
    /\ UNCHANGED <<programs, initial_start, parser, error_action, services, order, bad_commands, procs_state,
                   proc_info, startup_done, start_first, pc, nread, nacked, rpc_calls>>

NextLive == Run \/ Listen \/ ProcessRuns

\* run() returns: the step of Run, told by pc
RunReturns ==
    /\ pc = "run"
    /\ pc' = "listen"

\* the listener loop takes a buffered event: the step of Listen, told by nread
ListenTurn ==
    /\ pc = "listen"
    /\ ~startup_done
    /\ events # <<>>
    /\ nread' = nread + 1

\* run() returns, the listener loop handles a buffered event, a process in
\* STARTING comes up
SpecLive ==
    /\ InitLive
    /\ [][NextLive]_vars
    /\ WF_pc(RunReturns)
    /\ WF_nread(ListenTurn)
    /\ WF_vars(ProcessRuns)

\* C37: when every service is managed and STOPPED, every dependency is waited
\* for in RUNNING, no start call is rejected, every started process goes to
\* STARTING and RUNNING, and the listener's own RUNNING event arrives, the
\* startup is eventually done with a start call received by every service
C37_EventuallyDone ==
    <>(/\ startup_done
       /\ \A s \in DOMAIN services : calls_of(s) # {})

\* C37 witness: consul, slurmd and slurmd2 have been started by three calls
\* that supervisord accepted, and the startup is done
C37_Witness ==
    /\ services = ConsulSlurmd.programs
    /\ startup_done
    /\ Len(rpc_calls) = 3
    /\ \A i \in DOMAIN rpc_calls : rpc_calls[i].ok
    /\ \A s \in DOMAIN services : calls_of(s) # {} /\ recorded(s, "RUNNING")

----------------------------------------------------------------------------
(* The legacy sequencer: ordered_startup_supervisord *)

\* ProcessStates of ordered_startup_supervisord
ProcessStates == {"STOPPED", "STARTING", "RUNNING", "BACKOFF", "STOPPING", "EXITED",
                  "FATAL", "UNKNOWN"}

\* a [program:name] section: an option is {} when the section does not have it
ProgramSection(name, prio, autostart, startinorder, startnextafter) ==
    [name |-> name, priority |-> prio, autostart |-> autostart,
     startinorder |-> startinorder, startnextafter |-> startnextafter]

\* OrderedStartupOption.__init__
OrderedStartupOption(section) ==
    [autostart |-> option(section.autostart, FALSE),
     startinorder |-> option(section.startinorder, FALSE),
     startnextafter |->
         IF section.startnextafter = {} THEN "RUNNING"
         ELSE LET state == upper_word(CHOOSE word \in section.startnextafter : TRUE)
              IN  IF state \in ProcessStates THEN state ELSE "RUNNING"]

\* Program, as StartupPlan.__init__ fills it
Program(section) ==
    [name |-> section.name,
     priority |-> option(section.priority, 1000),
     options |-> OrderedStartupOption(section)]

\* list.sort(key=priority): a stable sort, by insertion from the left
RECURSIVE sort_by_priority(_)
sort_by_priority(progs) ==
    IF progs = <<>> THEN <<>>
    ELSE LET front == sort_by_priority(SubSeq(progs, 1, Len(progs) - 1))
             last == progs[Len(progs)]
             before == SelectSeq(front, LAMBDA x : x.priority <= last.priority)
             after == SelectSeq(front, LAMBDA x : x.priority > last.priority)
         IN  before \o <<last>> \o after

\* StartupPlan.__init__: the programs of the sections, sorted by priority
StartupPlan(sections) ==
    sort_by_priority([i \in DOMAIN sections |-> Program(sections[i])])

\* supervisord.startProcess(name, wait) as the sequencer meets it: a process
\* that runs already is refused (ALREADY_STARTED); without wait the call
\* returns once the process is spawned; with wait it returns when the process
\* is RUNNING, or with a fault when it has gone to BACKOFF (ABNORMAL_TERMINATION).
\* w is the state of supervisord with the calls, k the number of the event.
startProcess(w, name, wait, outcome, k) ==
    LET refused == w.sup[name] \in RUNNING_STATES
        fault == refused \/ (wait /\ outcome = "BACKOFF")
        emitted == IF refused THEN <<>>
                   ELSE IF wait THEN <<"STARTING", outcome>> ELSE <<"STARTING">>
        call == [name |-> name, wait |-> wait, ok |-> ~fault, event |-> k,
                 emitted |-> Len(emitted)]
    IN  [sup |-> IF refused THEN w.sup
                 ELSE [w.sup EXCEPT ![name] = emitted[Len(emitted)]],
         evq |-> w.evq \o [i \in DOMAIN emitted |->
                              [processname |-> name, state |-> emitted[i]]],
         calls |-> Append(w.calls, call),
         fault |-> fault]

\* mutant: the startinorder option of the program is not looked at
event_matches_any(program, ev) ==
    /\ program.name = ev.processname
    /\ program.options.startnextafter = ev.state

\* main 156: the event is the one the program starts its successor after
event_matches(program, ev) ==
    /\ program.options.startinorder
    /\ program.name = ev.processname
    /\ program.options.startnextafter = ev.state

\* main 149-162: the loop over the programs with its start_next flag; the
\* result is <<"start", name>>, <<"finished">> (the else of the for loop with
\* start_next set) or <<"none">>
RECURSIVE start_next_loop(_, _, _, _)
start_next_loop(progs, i, start_next, ev) ==
    IF i > Len(progs)
    THEN IF start_next THEN <<"finished">> ELSE <<"none">>
    ELSE IF start_next THEN <<"start", progs[i].name>>
    ELSE start_next_loop(progs, i + 1, event_matches(progs[i], ev), ev)

\* the programs of the files of the model, in the order of the file
LegacyNames == <<"slurmd", "consul", "slurmd2">>

\* the priorities written: none (1000), 10, 2000
LegacyPriorities == {{}, {10}, {2000}}

\* the other options of the three sections: every program in order and not
\* autostart; the second without startinorder; the first waiting for EXITED;
\* an unknown state name and no autostart option
LegacyOptions ==
    {[autostart |-> <<{FALSE}, {FALSE}, {FALSE}>>,
      startinorder |-> <<{TRUE}, {TRUE}, {TRUE}>>,
      startnextafter |-> <<{}, {"running"}, {}>>],
     [autostart |-> <<{FALSE}, {FALSE}, {FALSE}>>,
      startinorder |-> <<{TRUE}, {}, {TRUE}>>,
      startnextafter |-> <<{}, {}, {}>>],
     [autostart |-> <<{FALSE}, {FALSE}, {FALSE}>>,
      startinorder |-> <<{TRUE}, {TRUE}, {TRUE}>>,
      startnextafter |-> <<{"EXITED"}, {}, {}>>],
     [autostart |-> <<{}, {TRUE}, {}>>,
      startinorder |-> <<{TRUE}, {TRUE}, {TRUE}>>,
      startnextafter |-> <<{"bogus"}, {}, {}>>]}

\* the files: slurmd and consul with any of the priorities, slurmd2 without
LegacyFiles ==
    {[i \in DOMAIN LegacyNames |->
         ProgramSection(LegacyNames[i], IF i \in DOMAIN prio THEN prio[i] ELSE {},
                        opt.autostart[i], opt.startinorder[i], opt.startnextafter[i])] :
        prio \in [1..2 -> LegacyPriorities], opt \in LegacyOptions}

\* supervisord has read the sections and holds the programs STOPPED
InitLegacy ==
    /\ parser \in LegacyFiles
    /\ programs = <<>>
    /\ initial_start = "STARTED"
    /\ pc = "main"
    /\ supervisor = [name \in {parser[i].name : i \in DOMAIN parser} |-> "STOPPED"]
    /\ events = <<>>
    /\ nread = 0
    /\ nacked = 0
    /\ rpc_calls = <<>>
    /\ services = <<>>
    /\ order = <<>>
    /\ bad_commands = {}
    /\ procs_state = <<>>
    /\ proc_info = <<>>
    /\ startup_done = FALSE
    /\ start_first = {}
    /\ error_action = "skip"

\* main 131-141: the plan is built and the first program is started, without
\* waiting, unless its section says autostart; an exception ends main
MainStart ==
    /\ pc = "main"
    /\ LET plan == StartupPlan(parser)
           w0 == [sup |-> supervisor, evq |-> events, calls |-> rpc_calls, fault |-> FALSE]
           w == IF plan[1].options.autostart THEN w0
                ELSE startProcess(w0, plan[1].name, FALSE, "RUNNING", 0)
       IN  /\ programs' = plan
           /\ supervisor' = w.sup
           /\ events' = w.evq
           /\ rpc_calls' = w.calls
           /\ pc' = IF w.fault THEN "crashed" ELSE "wait"
    /\ UNCHANGED <<initial_start, parser, error_action, services, order, bad_commands,
                   procs_state, proc_info, startup_done, start_first, nread, nacked>>

\* main 142-164: one turn of the loop: wait, the loop over the programs, ok
MainLoop ==
    /\ pc = "wait"
    /\ events # <<>>
    /\ \E outcome \in {"RUNNING", "BACKOFF"} :
        LET ev == Head(events)
            w0 == [sup |-> supervisor, evq |-> Tail(events), calls |-> rpc_calls,
                   fault |-> FALSE]
            found == IF initial_start # "FINISHED"
                     THEN start_next_loop(programs, 1, FALSE, ev) ELSE <<"none">>
            w == IF found[1] = "start"
                 THEN startProcess(w0, found[2], TRUE, outcome, nread + 1) ELSE w0
        IN  /\ supervisor' = w.sup
            /\ events' = w.evq
            /\ rpc_calls' = w.calls
            /\ initial_start' = IF found[1] = "finished" THEN "FINISHED" ELSE initial_start
            /\ nacked' = IF w.fault THEN nacked ELSE nacked + 1
            /\ pc' = IF w.fault THEN "crashed" ELSE "wait"
    /\ nread' = nread + 1
    /\ UNCHANGED <<programs, parser, error_action, services, order, bad_commands,
                   procs_state, proc_info, startup_done, start_first>>

\* the states supervisord moves a program to on its own; a program is
\* autostarted unless its section says autostart=false
program_next_states(sections, name, state) ==
    CASE state = "STOPPED" ->
             IF \E i \in DOMAIN sections :
                    sections[i].name = name /\ option(sections[i].autostart, TRUE)
             THEN {"STARTING"} ELSE {}
      [] state = "STARTING" -> {"RUNNING", "BACKOFF"}
      [] state = "BACKOFF" -> {"STARTING", "FATAL"}
      [] state = "RUNNING" -> {"EXITED"}
      [] OTHER -> {}

\* the number of events the start calls have emitted
RECURSIVE emitted_by(_)
emitted_by(calls) ==
    IF calls = <<>> THEN 0 ELSE Head(calls).emitted + emitted_by(Tail(calls))

\* supervisord changes the state of a program and emits the event
ProgramStateChange ==
    /\ nread + Len(events) - emitted_by(rpc_calls) < MaxEvents
    /\ \E name \in DOMAIN supervisor :
        \E state \in program_next_states(parser, name, supervisor[name]) :
            /\ supervisor' = [supervisor EXCEPT ![name] = state]
            /\ events' = Append(events, [processname |-> name, state |-> state])
    /\ UNCHANGED <<programs, initial_start, parser, error_action, services, order,
                   bad_commands, procs_state, proc_info, startup_done, start_first, pc,
                   nread, nacked, rpc_calls>>

NextLegacy == MainStart \/ MainLoop \/ ProgramStateChange

SpecLegacy == InitLegacy /\ [][NextLegacy]_vars


\* the programs that start their successor after the event at the head of
\* the buffer
programs_hit ==
    {i \in DOMAIN programs :
        /\ programs[i].options.startinorder
        /\ programs[i].name = Head(events).processname
        /\ programs[i].options.startnextafter = Head(events).state}

\* C39: the programs of the plan are those of the sections, in ascending
\* priority with 1000 for a section without priority; an event read before
\* FINISHED that is the startnextafter state of a startinorder program causes
\* one start call, for the program next in the plan, or FINISHED and no call
\* when the program is the last; any other event causes no call; once
\* FINISHED no event causes a call, and every event read is acknowledged
C39_LegacySequencer ==
    /\ [](pc # "main" =>
             /\ Len(programs) = Len(parser)
             /\ \A i \in DOMAIN programs :
                    \E j \in DOMAIN parser :
                        /\ programs[i].name = parser[j].name
                        /\ programs[i].priority =
                               IF parser[j].priority = {} THEN 1000
                               ELSE CHOOSE n \in parser[j].priority : TRUE
             /\ \A i, j \in DOMAIN programs :
                    i < j => /\ programs[i].priority <= programs[j].priority
                             /\ programs[i].name # programs[j].name)
    /\ [](initial_start = "FINISHED" => (pc = "wait" /\ nacked = nread))
    /\ [][nread' # nread =>
              IF initial_start = "FINISHED"
              THEN /\ new_calls = {}
                   /\ initial_start' = "FINISHED"
                   /\ nacked' = nacked + 1
              ELSE /\ programs_hit = {} =>
                          (new_calls = {} /\ initial_start' = initial_start)
                   /\ \A i \in programs_hit :
                          IF i < Len(programs)
                          THEN /\ Cardinality(new_calls) = 1
                               /\ \A c \in new_calls :
                                      rpc_calls'[c].name = programs[i + 1].name
                               /\ initial_start' = initial_start
                          ELSE /\ new_calls = {}
                               /\ initial_start' = "FINISHED"
                   /\ new_calls = {} => nacked' = nacked + 1]_vars

\* C39 witness: consul, with priority 10, stands before slurmd; the three
\* programs have been started one after the other, the sequencer is FINISHED,
\* and the EXITED event of the last program has been read since and
\* acknowledged
C39_Witness ==
    /\ pc = "wait"
    /\ initial_start = "FINISHED"
    /\ programs[1].name = "consul"
    /\ Len(rpc_calls) = 3
    /\ \A i \in DOMAIN rpc_calls : rpc_calls[i].ok /\ rpc_calls[i].name = programs[i].name
    /\ supervisor[programs[3].name] = "EXITED"
    /\ events = <<>>
    /\ nacked = nread

====
